---------------------------- MODULE Spec2Model ----------------------------
(***************************************************************************)
(* A model of the plan_expo analytics core: the reflection parser          *)
(* (analyze_reflection.py), the habit list and the streak calculator       *)
(* (track_habit_streaks.py), the structure validator (validate_goals.py),  *)
(* the metrics updater (auto_update_metrics.py) and the crontab commands   *)
(* (schedule_manager.py).                                                  *)
(*                                                                         *)
(* Text.  A document is a flat sequence of tokens.  A token is an atomic   *)
(* fragment of text: [t |-> fragment, n |-> 0], or a maximal run of        *)
(* decimal digits [t |-> "num", n |-> value].  The line break is the token *)
(* "\n".  Fragments are concatenated as they stand (a blank between two    *)
(* words is a token of its own), and the patterns of the source are        *)
(* matched fragment by fragment.  Cyrillic text of the source is written   *)
(* transliterated:                                                         *)
(*    "#### Operacii:"                    #### Операции:                   *)
(*    "#### Taktika:"                     #### Тактика:                    *)
(*    "### Dokazatelstva identichnosti"   ### Доказательства идентичности  *)
(*    "**Vypolnenie operacij:**"          **Выполнение операций:**         *)
(*    "avariya" ...                       авария ... (the lexicons)        *)
(*    "ESLI", "TO", "Posle"               ЕСЛИ, ТО, После                  *)
(*    "->", "prazdnuyu:"                  →, праздную:                     *)
(***************************************************************************)
EXTENDS Integers, Sequences, FiniteSets, TLC

VARIABLES
    content,            \* parser: the text of the reflection file read
    reflection_data,    \* parser: the record returned, or NoValue before the call
    ppc,                \* parser: "start" | "done"
    habit,              \* streaks: the habit, [name |-> text]
    days_back,          \* streaks: the length of the lookback window
    today,              \* streaks: the weekday of today, 0 (Monday) .. 6
    daily,              \* streaks: daily[k] is the reflection file of the day
                        \*   k - 1 days before today
    i,                  \* streaks: the loop counter of the collection
    completion_history, \* streaks: the entries collected
    stats,              \* streaks: the statistics returned, or NoValue
    spc,                \* streaks: "collect" | "done" | "raised" | "idle"
    goals_dir,          \* validator: the goals directory exists
    goals,              \* validator: the goal files, in the order of the listing
    daily_dir,          \* validator: the daily directory exists
    tree,               \* validator: the files of the daily tree,
                        \*   [dir |-> <<>> or <<year, month>>, name, content]
    tree0,              \* validator: the tree before the run
    directories,        \* validator: the directories under daily/
    fix,                \* validator: --fix
    report,             \* validator: the ValidationReport
    g,                  \* validator: the goal files validated so far
    misplaced,          \* validator: the names of misplaced_files still to check
    reflection_files,   \* validator: the reflection files still to validate
    exit_code,          \* validator: what validate_all returns (-1: not yet)
    vpc,                \* validator: "goals" | "structure" | "misplaced" |
                        \*   "reflections" | "done" | "idle"
    pass_no,            \* validator: the number of the pass, 1 or 2 (0: idle)
    first_pass,         \* validator: in the second pass, what the first was:
                        \*   [fix, tree0, report, exit_code]; NoValue before
    goal_file,          \* metrics: the text of the goal file on disk
    calls,              \* metrics: the calls of update_goal_metrics made so far,
                        \*   [day, before, updated, written, after]
    procs,              \* metrics: the concurrent processes,
                        \*   [pc, day, content (the text read), updated]
    mpc,                \* metrics: "calls" | "race" | "idle"
    command,            \* commands: "analyze" | "metrics" | "idle"
    reflection,         \* commands: the reflection file of the requested day,
                        \*   [exists, content]
    goal_docs,          \* commands: the texts of the files of the goals directory
    returncode,         \* commands: the exit code of the process, -1 before its end
    cpc,                \* commands: "start" | "done" | "idle"
    habit_goals,        \* habits: the files of the goals directory, [stem, content]
    active_goals,       \* habits: what get_active_goals returned
    gk,                 \* habits: the active goals gone through so far
    all_habits,         \* habits: the entries collected
    hpc,                \* habits: "start" | "goals" | "done" | "idle"
    crontab,            \* schedule: the lines of the user's crontab
    crontab0,           \* schedule: its lines before the last operation
    cron_op,            \* schedule: the last operation, "none" | "install" |
                        \*   "install failed" | "remove" | "idle"
    cron_count          \* schedule: the operations made so far

parseVars == <<content, reflection_data, ppc>>
streakVars == <<habit, days_back, today, daily, i, completion_history, stats, spc>>
validVars == <<goals_dir, goals, daily_dir, tree, tree0, directories, fix, report,
               g, misplaced, reflection_files, exit_code, vpc, pass_no, first_pass>>
metricVars == <<goal_file, calls, procs, mpc>>
commandVars == <<command, reflection, goal_docs, returncode, cpc>>
habitVars == <<habit_goals, active_goals, gk, all_habits, hpc>>
cronVars == <<crontab, crontab0, cron_op, cron_count>>
vars == <<parseVars, streakVars, validVars, metricVars, commandVars, habitVars,
          cronVars>>

---------------------------------------------------------------------------
(* Tokens and elementary text operations *)

NoValue == [none |-> TRUE]

W(s) == [t |-> s, n |-> 0]
Num(k) == [t |-> "num", n |-> k]
NL == W("\n")
SP == W(" ")

\* str.lower() on one fragment: the fragments that have an upper-case letter.
lower(s) ==
    CASE s = "AVARIYA" -> "avariya"
      [] s = "Avariya" -> "avariya"
      [] s = "Reshil izmenit" -> "reshil izmenit"
      [] s = "[X]" -> "[x]"
      [] s = "ESLI" -> "esli"
      [] s = "TO" -> "to"
      [] s = "Posle" -> "posle"
      [] s = "Ustal" -> "ustal"
      [] s = "Gulyat" -> "gulyat"
      [] OTHER -> s

LowerTok(tok) == [t |-> lower(tok.t), n |-> tok.n]
LowerText(text) == [p \in DOMAIN text |-> LowerTok(text[p])]

\* \s : blank or line break
IsSpace(tok) == tok.t \in {" ", "\n"}
IsDigits(tok) == tok.t = "num"

RECURSIVE Concat(_)
Concat(seqs) == IF seqs = <<>> THEN <<>> ELSE Head(seqs) \o Concat(Tail(seqs))

\* str.strip()
RECURSIVE LStrip(_)
LStrip(text) ==
    IF text # <<>> /\ IsSpace(Head(text)) THEN LStrip(Tail(text)) ELSE text
RECURSIVE RStrip(_)
RStrip(text) ==
    IF text # <<>> /\ IsSpace(text[Len(text)])
    THEN RStrip(SubSeq(text, 1, Len(text) - 1)) ELSE text
Strip(text) == LStrip(RStrip(text))

\* str.split('\n')
RECURSIVE SplitLines(_)
SplitLines(text) ==
    IF \E p \in DOMAIN text : text[p] = NL
    THEN LET p == CHOOSE q \in DOMAIN text :
                     text[q] = NL /\ \A r \in 1..(q - 1) : text[r] # NL
         IN <<SubSeq(text, 1, p - 1)>> \o SplitLines(SubSeq(text, p + 1, Len(text)))
    ELSE <<text>>

\* str.startswith
StartsWith(text, prefix) ==
    Len(text) >= Len(prefix) /\ SubSeq(text, 1, Len(prefix)) = prefix

\* the first position >= p of text that holds no \s (Len(text) + 1: none)
RECURSIVE SkipSpace(_, _)
SkipSpace(text, p) ==
    IF p <= Len(text) /\ IsSpace(text[p]) THEN SkipSpace(text, p + 1) ELSE p

\* the position after the last token of the line that position p lies in
RECURSIVE LineEnd(_, _)
LineEnd(text, p) ==
    IF p <= Len(text) /\ text[p] # NL THEN LineEnd(text, p + 1) ELSE p

---------------------------------------------------------------------------
(* detect_critical_events *)

forced_keywords ==
    << "avariya", "poteryal", "uvolili", "bolezn", "krizis",
       "ne mogu", "nevozmozhno", "fors-mazhor", "vynuzhden",
       "prishlos", "obstoyatelstva", "poterya dohoda", "poterya raboty",
       "travm", "gospital", "operaciya" >>

voluntary_keywords ==
    << "reshil izmenit", "pereosmyslil", "ponyal, chto",
       "novye prioritety", "bolshe ne aktualno",
       "hochu sfokusirovatsya", "izmenil prioritety" >>

high_confidence == {"avariya", "poteryal", "uvolili", "bolezn"}

\* the keyword is a substring of the fragment: the fragment itself, or one of
\* the two keywords that share a letter in "vynuzhdenevozmozhno"
Holds(fragment, keyword) ==
    \/ fragment = keyword
    \/ fragment = "vynuzhdenevozmozhno" /\ keyword \in {"vynuzhden", "nevozmozhno"}

\* re.search / re.findall of a keyword with re.IGNORECASE
SearchIgnoreCase(keyword, text) ==
    \E p \in DOMAIN text : Holds(lower(text[p].t), lower(keyword))

\* a case-sensitive search (what the detector would do without .lower() and
\* re.IGNORECASE)
KeywordMatchesCaseSensitive(keyword, text) ==
    \E p \in DOMAIN text : text[p].t = keyword

\* lines 49, 53, 55-57: the keyword is searched in content.lower(), and its
\* context in content, both with re.IGNORECASE
KeywordMatches(keyword, text) ==
    /\ SearchIgnoreCase(keyword, LowerText(text))
    /\ SearchIgnoreCase(keyword, text)

ForcedEvent(keyword) ==
    [type |-> "FORCED_CHANGE", keyword |-> keyword,
     confidence |-> IF keyword \in high_confidence THEN "high" ELSE "medium"]

VoluntaryEvent(keyword) ==
    [type |-> "VOLUNTARY_CHANGE", keyword |-> keyword, confidence |-> "medium"]

\* an event for every match of a keyword
detect_critical_events_per_match(text) ==
    LET Matches(keyword) ==
            LET Is(fragment) == Holds(fragment, keyword)
            IN SelectSeq([p \in DOMAIN text |-> lower(text[p].t)], Is)
    IN Concat([k \in DOMAIN forced_keywords |->
                  [m \in DOMAIN Matches(forced_keywords[k]) |->
                      ForcedEvent(forced_keywords[k])]])
       \o Concat([k \in DOMAIN voluntary_keywords |->
                     [m \in DOMAIN Matches(voluntary_keywords[k]) |->
                         VoluntaryEvent(voluntary_keywords[k])]])

detect_critical_events(text) ==
    LET Hit(keyword) == KeywordMatches(keyword, text)
        forced == SelectSeq(forced_keywords, Hit)
        voluntary == SelectSeq(voluntary_keywords, Hit)
    IN [k \in 1..Len(forced) |-> ForcedEvent(forced[k])]
       \o [k \in 1..Len(voluntary) |-> VoluntaryEvent(voluntary[k])]

---------------------------------------------------------------------------
(* parse_reflection_file *)

OperationsHeader == W("#### Operacii:")
TacticsHeader == W("#### Taktika:")
EvidenceHeader == W("### Dokazatelstva identichnosti")
OperationsPercentLabel == W("**Vypolnenie operacij:**")

\* - \[[ x]\] .+   matched at position p: the position after the line, or 0
ItemEnd(text, p) ==
    IF /\ p + 3 <= Len(text)
       /\ text[p] = W("- ")
       /\ text[p + 1] \in {W("[ ]"), W("[x]")}
       /\ text[p + 2] = SP
       /\ text[p + 3] # NL
    THEN LineEnd(text, p + 3)
    ELSE 0

\* ((?:- \[[ x]\] .+\n?)+) from position p: the position after the block
\* (p itself: no item at p)
RECURSIVE BlockEnd(_, _)
BlockEnd(text, p) ==
    LET e == ItemEnd(text, p)
    IN IF e = 0 THEN p
       ELSE IF e <= Len(text) THEN BlockEnd(text, e + 1)   \* text[e] = "\n"
       ELSE e

\* the block under any of the three checklist headers, whichever is asked for
BlockAtAnyHeader(text, header, p) ==
    LET r == SkipSpace(text, p + 1)
    IN IF /\ text[p] \in {W("#### Operacii:"), W("#### Taktika:"),
                          W("### Dokazatelstva identichnosti")}
          /\ r >= p + 2
          /\ text[r - 1] = NL
          /\ BlockEnd(text, r) > r
       THEN SubSeq(text, r, BlockEnd(text, r) - 1)
       ELSE <<>>

\* header\s*\n((?:- \[[ x]\] .+\n?)+) matched at position p: group 1, or <<>>
BlockAt(text, header, p) ==
    LET r == SkipSpace(text, p + 1)
    IN IF /\ text[p] = header
          /\ r >= p + 2
          /\ text[r - 1] = NL
          /\ BlockEnd(text, r) > r
       THEN SubSeq(text, r, BlockEnd(text, r) - 1)
       ELSE <<>>

\* re.search: the leftmost match's group 1 (<<>>: no match)
ChecklistSection(text, header) ==
    IF \E p \in DOMAIN text : BlockAt(text, header, p) # <<>>
    THEN LET p == CHOOSE q \in DOMAIN text :
                     /\ BlockAt(text, header, q) # <<>>
                     /\ \A r \in 1..(q - 1) : BlockAt(text, header, r) = <<>>
         IN BlockAt(text, header, p)
    ELSE <<>>

\* '[x]' in line or '[X]' in line
HasMark(line) == \E p \in DOMAIN line : line[p].t \in {"[x]", "[X]"}

\* re.sub(r'- \[[xX]\]\s*', '', line)
RECURSIVE SubMark(_)
SubMark(line) ==
    IF line = <<>> THEN <<>>
    ELSE IF /\ Len(line) >= 2
            /\ line[1] = W("- ")
            /\ line[2].t \in {"[x]", "[X]"}
         THEN SubMark(SubSeq(line, SkipSpace(line, 3), Len(line)))
         ELSE <<Head(line)>> \o SubMark(Tail(line))

\* the done text of one line of a block ("" : nothing is appended)
DoneText(line) == IF HasMark(line) THEN Strip(SubMark(line)) ELSE <<>>

\* line 107: a line of the operations block that is skipped
SkippedLine(line) ==
    /\ Strip(line) # <<>>
    /\ ~StartsWith(Strip(line), <<W("- "), W("[ ]")>>)
    /\ ~StartsWith(Strip(line), <<W("- "), W("[x]")>>)

BlockLines(section) == SplitLines(Strip(section))

NonEmpty(text) == text # <<>>

\* lines 104-112
OperationsDone(text) ==
    LET section == ChecklistSection(text, OperationsHeader)
        lines == IF section = <<>> THEN <<>> ELSE BlockLines(section)
        Kept(line) == ~SkippedLine(line) /\ DoneText(line) # <<>>
        kept == SelectSeq(lines, Kept)
    IN [k \in 1..Len(kept) |-> DoneText(kept[k])]

\* lines 115-121 and 124-130
ChecklistDone(text, header) ==
    LET section == ChecklistSection(text, header)
        lines == IF section = <<>> THEN <<>> ELSE BlockLines(section)
        Kept(line) == DoneText(line) # <<>>
        kept == SelectSeq(lines, Kept)
    IN [k \in 1..Len(kept) |-> DoneText(kept[k])]

\* label\s*\[?(\d+)%?\]?  matched at position p: the position of the digits, or 0
PercentAt(text, label, p) ==
    LET r == SkipSpace(text, p + 1)
        d == IF r <= Len(text) /\ text[r] = W("[") THEN r + 1 ELSE r
    IN IF text[p] = label /\ d <= Len(text) /\ IsDigits(text[d]) THEN d ELSE 0

\* lines 156-158: int(group(1)) of the leftmost match, or NoValue (None)
PercentField(text, label) ==
    IF \E p \in DOMAIN text : PercentAt(text, label, p) # 0
    THEN LET p == CHOOSE q \in DOMAIN text :
                     /\ PercentAt(text, label, q) # 0
                     /\ \A r \in 1..(q - 1) : PercentAt(text, label, r) = 0
         IN [none |-> FALSE, v |-> text[PercentAt(text, label, p)].n]
    ELSE NoValue

InsightsHeader == W("## Insajty i nablyudeniya")     \* ## Инсайты и наблюдения
PlanHeader == W("## Plan na zavtra")                 \* ## План на завтра
Rule == W("---")

\* lines 178, 183: the fragments that begin "##" or "---", which the
\* lookahead (?=\n---|\n##|$) stops before
Boundaries ==
    {InsightsHeader, PlanHeader, Rule, OperationsHeader, TacticsHeader,
     EvidenceHeader, W("### Podrobnosti"), W("## UTRO"), W("## DEN"),
     W("## VECHER"), W("## PROGRESS ZA DEN"), W("## REFLEKSIYA"),
     W("## ISTORIYA IZMENENIJ"), W("## Kommentarii II-sistemy")}

\* header\s*\n\n matched from the header at position p with something left
\* for (.+?): the positions where the group may begin (\s* is greedy, so the
\* last of them is taken)
GroupStarts(text, p) ==
    {q \in (p + 3)..Len(text) :
        /\ text[q - 1] = NL
        /\ text[q - 2] = NL
        /\ \A r \in (p + 1)..(q - 3) : IsSpace(text[r])}

\* (.+?)(?=\n---|\n##|$) with DOTALL, from position q: the last position of
\* the group ($ is the end of the text or the place before its last line break)
GroupEnd(text, q) ==
    LET Stops(e) ==
            \/ e = Len(text)
            \/ e = Len(text) - 1 /\ text[Len(text)] = NL
            \/ e + 2 <= Len(text) /\ text[e + 1] = NL /\ text[e + 2] \in Boundaries
    IN CHOOSE e \in q..Len(text) : Stops(e) /\ \A r \in q..(e - 1) : ~Stops(r)

\* lines 177-185: re.search(header\s*\n\n(.+?)(?=\n---|\n##|$)) and
\* group(1).strip(); the empty text when there is no match
FreeText(text, header) ==
    LET found == {p \in DOMAIN text : text[p] = header /\ GroupStarts(text, p) # {}}
    IN IF found = {} THEN <<>>
       ELSE LET p == CHOOSE x \in found : \A y \in found : x <= y
                q == CHOOSE x \in GroupStarts(text, p) :
                         \A y \in GroupStarts(text, p) : y <= x
            IN Strip(SubSeq(text, q, GroupEnd(text, q)))

parse_reflection_file(text) ==
    [ insights |-> FreeText(text, InsightsHeader),
      plan_tomorrow |-> FreeText(text, PlanHeader),
      operations_done |-> OperationsDone(text),
      tactics_done |-> ChecklistDone(text, TacticsHeader),
      evidence_done |-> ChecklistDone(text, EvidenceHeader),
      operations_percent |-> PercentField(text, OperationsPercentLabel),
      critical_events |-> detect_critical_events(text) ]

---------------------------------------------------------------------------
(* track_habit_streaks.py: extract_habits *)

IfMark == <<W("- "), W("ESLI"), SP>>                  \* "- ЕСЛИ "
ThenMark == <<SP, W("->"), SP, W("TO"), SP>>          \* " → ТО "
AfterMark == <<W("- "), W("Posle"), SP>>              \* "- После "
Arrow == <<SP, W("->"), SP>>                          \* " → "
Celebration == <<SP, W("->"), SP, W("prazdnuyu:")>>   \* " → праздную:"

\* the pattern stands in the line from position p
StandsAt(line, p, pattern) ==
    /\ p >= 1
    /\ p + Len(pattern) - 1 <= Len(line)
    /\ SubSeq(line, p, p + Len(pattern) - 1) = pattern

\* mark(.+?)separator(.+?)(?:\n|$) searched in one line: the pairs <<p, q>>
\* of the places of the mark and of the separator, each group holding a
\* fragment at least
Pairs(line, mark, separator) ==
    LET marks == {p \in DOMAIN line : StandsAt(line, p, mark)}
        separators == {q \in DOMAIN line :
                          /\ StandsAt(line, q, separator)
                          /\ q + Len(separator) <= Len(line)}
    IN {pq \in marks \X separators : pq[2] > pq[1] + Len(mark)}

\* the leftmost match, its first group the shortest there is
FirstPair(line, mark, separator) ==
    LET pairs == Pairs(line, mark, separator)
    IN CHOOSE pq \in pairs :
           \A other \in pairs :
               \/ pq[1] < other[1]
               \/ pq[1] = other[1] /\ pq[2] <= other[2]

\* lines 60-69: the habit of a line matched by the if-then pattern
IfThenHabit(line) ==
    LET pq == FirstPair(line, IfMark, ThenMark)
        trigger == Strip(SubSeq(line, pq[1] + Len(IfMark), pq[2] - 1))
        action == Strip(SubSeq(line, pq[2] + Len(ThenMark), Len(line)))
    IN [ name |-> <<W("ESLI"), SP>> \o trigger \o ThenMark \o action,
         type |-> "implementation_intention",
         trigger |-> trigger,
         action |-> action ]

\* line 78: re.sub(' → праздную:.*$', '', action)
RemoveCelebration(action) ==
    LET places == {p \in DOMAIN action : StandsAt(action, p, Celebration)}
    IN IF places = {} THEN action
       ELSE SubSeq(action, 1, (CHOOSE p \in places : \A r \in places : p <= r) - 1)

\* lines 72-85: the habit of a line matched by the tiny-habit pattern
TinyHabit(line) ==
    LET pq == FirstPair(line, AfterMark, Arrow)
        anchor == Strip(SubSeq(line, pq[1] + Len(AfterMark), pq[2] - 1))
        action == RemoveCelebration(Strip(SubSeq(line, pq[2] + Len(Arrow), Len(line))))
    IN [ name |-> <<W("Posle"), SP>> \o anchor \o Arrow \o action,
         type |-> "tiny_habit",
         anchor |-> anchor,
         action |-> action ]

\* the habits of the two loops: a match never crosses a line break and runs
\* to the end of its line
IfThenHabits(lines) ==
    LET Matched(line) == Pairs(line, IfMark, ThenMark) # {}
        matched == SelectSeq(lines, Matched)
    IN [k \in 1..Len(matched) |-> IfThenHabit(matched[k])]

TinyHabits(lines) ==
    LET Matched(line) == Pairs(line, AfterMark, Arrow) # {}
        matched == SelectSeq(lines, Matched)
    IN [k \in 1..Len(matched) |-> TinyHabit(matched[k])]

\* the same with a habit already listed under its name left out
RECURSIVE Unique(_)
Unique(habits) ==
    IF habits = <<>> THEN <<>>
    ELSE LET front == SubSeq(habits, 1, Len(habits) - 1)
             last == habits[Len(habits)]
         IN IF \E k \in DOMAIN front : front[k].name = last.name
            THEN Unique(front)
            ELSE Append(Unique(front), last)

extract_habits_unique(text) ==
    Unique(IfThenHabits(SplitLines(text)) \o TinyHabits(SplitLines(text)))

\* lines 55-87
extract_habits(text) ==
    IfThenHabits(SplitLines(text)) \o TinyHabits(SplitLines(text))

---------------------------------------------------------------------------
(* check_habit_completion *)

\* the fragments that hold a word character next to other characters, cut
\* into their pieces; every other fragment is one piece
Pieces(tok) ==
    CASE tok.t = "[x]" -> <<W("["), W("x"), W("]")>>
      [] tok.t = "[X]" -> <<W("["), W("X"), W("]")>>
      [] tok.t = "reshil izmenit" -> <<W("reshil"), SP, W("izmenit")>>
      [] tok.t = "Reshil izmenit" -> <<W("Reshil"), SP, W("izmenit")>>
      [] OTHER -> <<tok>>

\* the pieces that hold no word character
NonWord == {" ", "\n", "- ", "[ ]", "[", "]", "%", "->", ":", "."}

IsWordPiece(tok) == tok.t \notin NonWord

RECURSIVE Expand(_)
Expand(text) ==
    IF text = <<>> THEN <<>> ELSE Pieces(Head(text)) \o Expand(Tail(text))

\* re.findall(r'\w+', text) as a set: the maximal runs of word pieces
RECURSIVE WordRuns(_, _)
WordRuns(pieces, run) ==
    IF pieces = <<>>
    THEN IF run = <<>> THEN {} ELSE {run}
    ELSE IF IsWordPiece(Head(pieces))
         THEN WordRuns(Tail(pieces), Append(run, Head(pieces)))
         ELSE (IF run = <<>> THEN {} ELSE {run}) \cup WordRuns(Tail(pieces), <<>>)

Keywords(text) == WordRuns(Expand(LowerText(text)), <<>>)

\* line 104, for one operation
OperationMatches(habit_keywords, operation_keywords) ==
    2 * Cardinality(habit_keywords \cap operation_keywords)
        >= Cardinality(habit_keywords)

\* the check with the fallback taken above 80 only
check_habit_completion_above80(h, data) ==
    IF \E k \in DOMAIN data.operations_done :
           OperationMatches(Keywords(h.name), Keywords(data.operations_done[k]))
    THEN "True"
    ELSE IF data.operations_percent = NoValue THEN "TypeError"
    ELSE IF data.operations_percent.v > 80 THEN "True"
    ELSE "False"

\* lines 90-112: "True", "False", or "TypeError" (None >= 80)
check_habit_completion(h, data) ==
    IF \E k \in DOMAIN data.operations_done :
           OperationMatches(Keywords(h.name), Keywords(data.operations_done[k]))
    THEN "True"
    ELSE IF data.operations_percent = NoValue THEN "TypeError"
    ELSE IF data.operations_percent.v >= 80 THEN "True"
    ELSE "False"

---------------------------------------------------------------------------
(* calculate_streaks *)

DayNames ==
    <<"Monday", "Tuesday", "Wednesday", "Thursday", "Friday", "Saturday", "Sunday">>

\* date.strftime('%A') of the day `age` days before today
DayOfWeek(age) == DayNames[((today - age) % 7) + 1]

\* a reflection file: absent, unreadable (open or decoding raises), or a text
MissingFile == [exists |-> FALSE, readable |-> FALSE, content |-> <<>>]
UnreadableFile == [exists |-> TRUE, readable |-> FALSE, content |-> <<>>]
TextFile(text) == [exists |-> TRUE, readable |-> TRUE, content |-> text]

\* the try block of lines 134-141 with no except clause: an exception leaves
\* calculate_streaks
DayOutcomeUncaught(h, file) ==
    IF ~file.exists THEN "False"
    ELSE IF ~file.readable THEN "raise"
    ELSE LET r == check_habit_completion(h, parse_reflection_file(file.content))
         IN IF r = "TypeError" THEN "raise" ELSE r

\* lines 133-155: "True" or "False", the value of 'completed'; "raise" when an
\* exception leaves calculate_streaks
DayOutcome(h, file) ==
    IF ~file.exists THEN "False"
    ELSE IF ~file.readable THEN "False"
    ELSE LET r == check_habit_completion(h, parse_reflection_file(file.content))
         IN IF r = "TypeError" THEN "False" ELSE r

Reverse(s) == [k \in 1..Len(s) |-> s[Len(s) + 1 - k]]

\* the completed days of the whole window, counted without stopping
RECURSIVE CurrentStreakNoStop(_)
CurrentStreakNoStop(history) ==
    IF history = <<>> THEN 0
    ELSE (IF history[Len(history)].completed THEN 1 ELSE 0)
         + CurrentStreakNoStop(SubSeq(history, 1, Len(history) - 1))

\* lines 161-166
RECURSIVE CurrentStreak(_)
CurrentStreak(history) ==
    IF history # <<>> /\ history[Len(history)].completed
    THEN 1 + CurrentStreak(SubSeq(history, 1, Len(history) - 1))
    ELSE 0

Max(a, b) == IF a >= b THEN a ELSE b

\* a maximum that is updated only when a run of completed days ends
RECURSIVE MaxStreakOnBreak(_, _, _)
MaxStreakOnBreak(history, max_streak, temp_streak) ==
    IF history = <<>> THEN max_streak
    ELSE IF Head(history).completed
         THEN MaxStreakOnBreak(Tail(history), max_streak, temp_streak + 1)
         ELSE MaxStreakOnBreak(Tail(history), Max(max_streak, temp_streak), 0)

\* lines 169-176
RECURSIVE MaxStreak(_, _, _)
MaxStreak(history, max_streak, temp_streak) ==
    IF history = <<>> THEN max_streak
    ELSE IF Head(history).completed
         THEN MaxStreak(Tail(history), Max(max_streak, temp_streak + 1),
                        temp_streak + 1)
         ELSE MaxStreak(Tail(history), max_streak, 0)

Week == 7
Month == 30

\* history[:n], the first n entries
FirstDays(history, n) ==
    IF Len(history) >= n THEN SubSeq(history, 1, n) ELSE history

\* lines 179-180: history[-n:] if len(history) >= n else history
LastDays(history, n) ==
    IF Len(history) >= n
    THEN SubSeq(history, Len(history) - n + 1, Len(history))
    ELSE history

Completed(history) == Cardinality({k \in DOMAIN history : history[k].completed})

\* round(c / n * 100, 1) in tenths of a percent (ties to the even tenth)
Round1(c, n) ==
    LET q == (1000 * c) \div n
        r == (1000 * c) % n
    IN IF 2 * r < n THEN q
       ELSE IF 2 * r > n THEN q + 1
       ELSE IF q % 2 = 0 THEN q ELSE q + 1

\* lines 182-184 and 216-218, in tenths of a percent
CompletionRate(days) ==
    IF days # <<>> THEN Round1(Completed(days), Len(days)) ELSE 0

\* lines 206-211 and 219, in tenths
AvgPerWeek(history) ==
    LET weeks == Len(history) \div Week
    IN IF weeks > 0 THEN Round1(Completed(history), 100 * weeks) ELSE 0

\* lines 187-194: the weekdays of the history in the order of their first
\* entry, each with the number of its completed days and of its days (the
\* percentage is done / total * 100)
day_stats(history) ==
    LET First(k) == \A j \in 1..(k - 1) :
                        history[j].day_of_week # history[k].day_of_week
        order == SelectSeq([k \in 1..Len(history) |-> k], First)
        OfDay(m) == {k \in 1..Len(history) :
                        history[k].day_of_week = history[order[m]].day_of_week}
    IN [m \in 1..Len(order) |->
           [day |-> history[order[m]].day_of_week,
            done |-> Cardinality({k \in OfDay(m) : history[k].completed}),
            total |-> Cardinality(OfDay(m))]]

\* the percentage of a is above that of b
Higher(a, b) == a.done * b.total > b.done * a.total

\* a sort that puts the later entry first among equal percentages
sorted_days_last_first(ds) ==
    LET Rank(m) == 1 + Cardinality({j \in DOMAIN ds : Higher(ds[j], ds[m])})
                     + Cardinality({j \in DOMAIN ds :
                           j > m /\ ~Higher(ds[j], ds[m]) /\ ~Higher(ds[m], ds[j])})
    IN [p \in DOMAIN ds |-> ds[CHOOSE m \in DOMAIN ds : Rank(m) = p]]

\* line 198: sorted(day_stats.items(), key=rate, reverse=True); the sort is
\* stable, so equal percentages keep the order of day_stats
sorted_days(ds) ==
    LET Rank(m) == 1 + Cardinality({j \in DOMAIN ds : Higher(ds[j], ds[m])})
                     + Cardinality({j \in DOMAIN ds :
                           j < m /\ ~Higher(ds[j], ds[m]) /\ ~Higher(ds[m], ds[j])})
    IN [p \in DOMAIN ds |-> ds[CHOOSE m \in DOMAIN ds : Rank(m) = p]]

\* line 199: [day for day, rate in sorted_days[:2] if rate >= 50]
best_days(sorted) ==
    LET AtLeastHalf(d) == 2 * d.done >= d.total
        first == IF Len(sorted) >= 2 THEN SubSeq(sorted, 1, 2) ELSE sorted
        chosen == SelectSeq(first, AtLeastHalf)
    IN [k \in DOMAIN chosen |-> chosen[k].day]

\* line 200: [day for day, rate in sorted_days[-2:] if rate < 50]
worst_days(sorted) ==
    LET BelowHalf(d) == 2 * d.done < d.total
        last == IF Len(sorted) >= 2 THEN SubSeq(sorted, Len(sorted) - 1, Len(sorted))
                ELSE sorted
        chosen == SelectSeq(last, BelowHalf)
    IN [k \in DOMAIN chosen |-> chosen[k].day]

\* lines 160-223
Statistics(history) ==
    [ day_stats |-> day_stats(history),
      best_days |-> best_days(sorted_days(day_stats(history))),
      worst_days |-> worst_days(sorted_days(day_stats(history))),
      current_streak |-> CurrentStreak(history),
      max_streak |-> MaxStreak(history, 0, 0),
      completion_rate_7d |-> CompletionRate(LastDays(history, Week)),
      completion_rate_30d |-> CompletionRate(LastDays(history, Month)),
      completion_rate_all |-> CompletionRate(history),
      avg_per_week |-> AvgPerWeek(history) ]

\* lines 123-223 for a window of files, files[k] the reflection of the day
\* k - 1 days before today
calculate_streaks(h, files) ==
    LET collected == [k \in 1..Len(files) |->
                        [date |-> k - 1,
                         completed |-> (DayOutcome(h, files[k]) = "True"),
                         day_of_week |-> DayOfWeek(k - 1)]]
    IN Statistics(Reverse(collected))

---------------------------------------------------------------------------
(* validate_goals.py: the report, validate_goal_file *)

\* a date YYYY-MM-DD in a text, as one fragment; n is the number YYYYMMDD
Date(n) == [t |-> "date", n |-> n]
IsDate(tok) == tok.t = "date"

StatusLabel == W("**Status:**")                     \* **Статус:**
CreatedLabel == W("**Data sozdaniya:**")            \* **Дата создания:**
UpdatedLabel == W("**Poslednee obnovlenie:**")      \* **Последнее обновление:**

\* lines 128-133: the pattern and the name of each required section
required_sections ==
    << [pattern |-> W("## STRATEGICHESKIJ UROVEN"), name |-> W("Strategicheskij uroven")],
       [pattern |-> W("## TAKTICHESKIJ UROVEN"), name |-> W("Takticheskij uroven")],
       [pattern |-> W("## OPERACIONNYJ UROVEN"), name |-> W("Operacionnyj uroven")],
       [pattern |-> W("## ISTORIYA IZMENENIJ"), name |-> W("Istoriya izmenenij")] >>

valid_statuses == {"active", "completed", "paused", "cancelled"}

\* a path: a goal file (the idx-th of the listing), or a file of the daily
\* tree, daily/<dir...>/<name>
NoPath == [root |-> "none", idx |-> 0, dir |-> <<>>, name |-> <<>>]
GoalPath(idx) == [root |-> "goals", idx |-> idx, dir |-> <<>>, name |-> <<>>]
DailyPath(dir, name) == [root |-> "daily", idx |-> 0, dir |-> dir, name |-> name]

\* lines 49-56: an issue of the report
Issue(message, arg, file, fix_command) ==
    [message |-> message, arg |-> arg, file |-> file, fix |-> fix_command]

\* lines 42-47
EmptyReport == [critical |-> <<>>, warning |-> <<>>, recommendation |-> <<>>]

\* pattern in content
Contains(text, pattern) == \E p \in DOMAIN text : text[p] = pattern

\* lines 135-141
MissingSections(text) ==
    LET Missing(section) == ~Contains(text, section.pattern)
    IN SelectSeq(required_sections, Missing)

\* line 145: \*\*Статус:\*\*\s+(active|completed|paused|cancelled)
StatusFound(text) ==
    \E p \in DOMAIN text :
        LET r == SkipSpace(text, p + 1)
        IN /\ text[p] = StatusLabel
           /\ r >= p + 2
           /\ r <= Len(text)
           /\ text[r].t \in valid_statuses

\* lines 154, 163: label\s+(\d{4}-\d{2}-\d{2})
DateFound(text, label) ==
    \E p \in DOMAIN text :
        LET r == SkipSpace(text, p + 1)
        IN /\ text[p] = label
           /\ r >= p + 2
           /\ r <= Len(text)
           /\ IsDate(text[r])

\* line 172: re.findall(r'(\d+)%', content), as the positions of the digits
PercentPositions(text) ==
    LET Followed(p) == IsDigits(text[p]) /\ p < Len(text) /\ text[p + 1] = W("%")
    IN SelectSeq([p \in 1..Len(text) |-> p], Followed)

\* lines 173-179
HighPercents(text) ==
    LET Above(p) == text[p].n > 100
    IN SelectSeq(PercentPositions(text), Above)

\* the percentages above 100 reported as critical
GoalCriticalWithPercents(file, path) ==
    IF ~file.readable
    THEN <<Issue("Oshibka chteniya fajla", W(""), path, "")>>
    ELSE LET missing == MissingSections(file.content)
             high == HighPercents(file.content)
         IN [k \in 1..Len(missing) |->
                Issue("Otsutstvuet sekciya", missing[k].name, path, "")]
            \o (IF StatusFound(file.content) THEN <<>>
                ELSE <<Issue("Nekorrektnyj ili otsutstvuyushchij status", W(""), path, "")>>)
            \o [k \in 1..Len(high) |->
                Issue("Procent vyshe 100%", file.content[high[k]], path, "")]

\* only the first missing section is reported
GoalCriticalFirstSection(file, path) ==
    IF ~file.readable
    THEN <<Issue("Oshibka chteniya fajla", W(""), path, "")>>
    ELSE LET missing == MissingSections(file.content)
         IN (IF missing = <<>> THEN <<>>
             ELSE <<Issue("Otsutstvuet sekciya", required_sections[1].name, path, "")>>)
            \o (IF StatusFound(file.content) THEN <<>>
                ELSE <<Issue("Nekorrektnyj ili otsutstvuyushchij status", W(""), path, "")>>)

\* lines 123-151, 181-186: the CRITICAL issues validate_goal_file adds
GoalCritical(file, path) ==
    IF ~file.readable
    THEN <<Issue("Oshibka chteniya fajla", W(""), path, "")>>
    ELSE LET missing == MissingSections(file.content)
         IN [k \in 1..Len(missing) |->
                Issue("Otsutstvuet sekciya", missing[k].name, path, "")]
            \o (IF StatusFound(file.content) THEN <<>>
                ELSE <<Issue("Nekorrektnyj ili otsutstvuyushchij status", W(""), path, "")>>)

\* lines 153-179: the WARNING issues validate_goal_file adds
GoalWarnings(file, path) ==
    IF ~file.readable THEN <<>>
    ELSE LET high == HighPercents(file.content)
         IN (IF DateFound(file.content, CreatedLabel) THEN <<>>
             ELSE <<Issue("Otsutstvuet ili nekorrektna data sozdaniya", W(""), path, "")>>)
            \o (IF DateFound(file.content, UpdatedLabel) THEN <<>>
                ELSE <<Issue("Otsutstvuet ili nekorrektno poslednee obnovlenie", W(""),
                             path, "")>>)
            \o [k \in 1..Len(high) |->
                Issue("Procent vyshe 100%", file.content[high[k]], path, "")]

\* lines 121-186
validate_goal_file(file, path, rep) ==
    [rep EXCEPT !.critical = @ \o GoalCritical(file, path),
                !.warning = @ \o GoalWarnings(file, path)]

---------------------------------------------------------------------------
(* validate_reflections_structure, validate_reflection_file *)

\* a file name of the daily tree: <<year, month, day, rest>> stands for
\* "<year>-<month>-<day><rest>.md", and <<rest>> for "<rest>.md", a stem that
\* does not begin with a date (line 207)
DateName(year, month, day, rest) == <<year, month, day, rest>>
OtherName(rest) == <<rest>>
DateMatch(name) == Len(name) = 4

\* the month left out of the path
correct_dir_no_month(name) == <<name[1]>>

\* line 211: DAILY_DIR / year / month / f"{filename}.md"
correct_dir(name) == <<name[1], name[2]>>

\* the entries of the tree at a path
At(files, dir, name) == {f \in files : f.dir = dir /\ f.name = name}

\* the file written at the new path and left at the old one
CopyFile(files, file, dir) ==
    (files \ At(files, dir, file.name))
        \cup {[dir |-> dir, name |-> file.name, content |-> file.content]}

\* line 223: file_path.rename(correct_path); the target, if there is one, is
\* replaced (POSIX)
Rename(files, file, dir) ==
    (files \ ({file} \cup At(files, dir, file.name)))
        \cup {[dir |-> dir, name |-> file.name, content |-> file.content]}

\* line 222: correct_path.parent.mkdir(parents=True, exist_ok=True)
RECURSIVE Mkdir(_, _)
Mkdir(existing, dir) ==
    IF dir = <<>> THEN existing
    ELSE Mkdir(existing \cup {dir}, SubSeq(dir, 1, Len(dir) - 1))

\* lines 240-246
recommended_sections ==
    << W("## UTRO"), W("## DEN"), W("## VECHER"), W("## PROGRESS ZA DEN"),
       W("## REFLEKSIYA") >>

\* lines 248-258: the RECOMMENDATION issue of one reflection file, if any
ReflectionIssues(file) ==
    LET Missing(section) == ~Contains(file.content, section)
    IN IF SelectSeq(recommended_sections, Missing) # <<>>
       THEN <<Issue("Rekomenduetsya dobavit sekcii", W(""),
                    DailyPath(file.dir, file.name), "")>>
       ELSE <<>>

\* an issue of any level counts
has_issue(rep) ==
    Len(rep.critical) + Len(rep.warning) + Len(rep.recommendation) > 0

\* lines 58-60
has_critical(rep) == Len(rep.critical) > 0

---------------------------------------------------------------------------
(* auto_update_metrics.py: update_goal_metrics *)

ProgressLabel == W("**Tekushchij progress:**")      \* **Текущий прогресс:**
CompletionLabel == W("**Vypolnenie:**")             \* **Выполнение:**
HistoryHeader == W("## ISTORIYA IZMENENIJ")         \* ## ИСТОРИЯ ИЗМЕНЕНИЙ

Ceiling == 10
Inventory == 8

\* line 128: datetime.now(), the day the updates run
Today == Date(20250107)

Min(a, b) == IF a <= b THEN a ELSE b

\* lines 63-65
count_evidence_from_reflection(data) == Len(data.evidence_done)

\* lines 68-78
calculate_operations_percentage(data) ==
    IF data.operations_percent # NoValue
    THEN data.operations_percent.v
    ELSE IF Len(data.operations_done) > 0
         THEN Min(100, (Len(data.operations_done) * 100) \div Inventory)
         ELSE 0

\* line 99: \*\*Текущий прогресс:\*\* (\d+)/10 matched at position p
ProgressAt(text, p) ==
    /\ p + 3 <= Len(text)
    /\ text[p] = ProgressLabel
    /\ text[p + 1] = SP
    /\ IsDigits(text[p + 2])
    /\ text[p + 3] = W("/10")

\* line 118: \*\*Выполнение:\*\* (\d+)% matched at position p
CompletionAt(text, p) ==
    /\ p + 3 <= Len(text)
    /\ text[p] = CompletionLabel
    /\ text[p + 1] = SP
    /\ IsDigits(text[p + 2])
    /\ text[p + 3] = W("%")

\* line 130: \*\*Последнее обновление:\*\* \d{4}-\d{2}-\d{2} matched at position p
UpdatedAt(text, p) ==
    /\ p + 2 <= Len(text)
    /\ text[p] = UpdatedLabel
    /\ text[p + 1] = SP
    /\ IsDate(text[p + 2])

\* lines 106-110: re.sub, the digits of every match of the counter replaced
SubProgress(text, tok) ==
    [q \in DOMAIN text |-> IF q > 2 /\ ProgressAt(text, q - 2) THEN tok ELSE text[q]]

\* lines 119-123: re.sub, the digits of every match of the percentage replaced
SubCompletion(text, tok) ==
    [q \in DOMAIN text |-> IF q > 2 /\ CompletionAt(text, q - 2) THEN tok ELSE text[q]]

\* lines 129-133: re.sub, the date of every match replaced
SubUpdated(text, tok) ==
    [q \in DOMAIN text |-> IF q > 2 /\ UpdatedAt(text, q - 2) THEN tok ELSE text[q]]

\* lines 100, 103: int(group(1)) of the leftmost match of the counter
CurrentProgress(text) ==
    LET p == CHOOSE q \in DOMAIN text :
                 ProgressAt(text, q) /\ \A r \in 1..(q - 1) : ~ProgressAt(text, r)
    IN text[p + 2].n

\* the counter raised with no ceiling
EvidenceStepUncapped(text, evidence_count) ==
    IF evidence_count > 0 /\ \E p \in DOMAIN text : ProgressAt(text, p)
    THEN [content |-> SubProgress(text,
                               Num(CurrentProgress(text) + evidence_count)),
          updated |-> TRUE]
    ELSE [content |-> text, updated |-> FALSE]

\* lines 95-112: the text and the flag after the first step
EvidenceStep(text, evidence_count) ==
    IF evidence_count > 0 /\ \E p \in DOMAIN text : ProgressAt(text, p)
    THEN [content |-> SubProgress(text,
                               Num(Min(Ceiling, CurrentProgress(text) + evidence_count))),
          updated |-> TRUE]
    ELSE [content |-> text, updated |-> FALSE]

\* lines 114-125: the text and the flag after the second step
CompletionStep(step, operations_percent) ==
    IF operations_percent > 0
    THEN [content |-> SubCompletion(step.content, Num(operations_percent)),
          updated |-> TRUE]
    ELSE step

\* lines 137-139: the entry of the change history
history_entry(date, evidence_count, operations_percent) ==
    << W("- "), Today,
       W(": [PROGRESS] Avtoobnovlenie metrik na osnove refleksii za "), date, NL,
       W("  - **Detali:** Obnovleny metriki: dokazatelstv identichnosti +"),
       Num(evidence_count), W(", vypolnenie operacij "), Num(operations_percent),
       W("%"), NL >>

\* line 142: (## ИСТОРИЯ ИЗМЕНЕНИЙ\s*\n) matched at position p: the position of
\* the last line break of the blank run after the header, or 0
HistoryEnd(text, p) ==
    LET r == SkipSpace(text, p + 1)
        breaks == {q \in (p + 1)..(r - 1) : text[q] = NL}
    IN IF text[p] = HistoryHeader /\ breaks # {}
       THEN CHOOSE q \in breaks : \A b \in breaks : b <= q
       ELSE 0

\* lines 144-148: re.sub(history_pattern, '\\1\n' + entry + '\n'): the text
\* from position p on, with the entry put after every match
RECURSIVE InsertEntry(_, _, _)
InsertEntry(text, p, entry) ==
    IF p > Len(text) THEN <<>>
    ELSE IF HistoryEnd(text, p) # 0
         THEN SubSeq(text, p, HistoryEnd(text, p)) \o <<NL>> \o entry \o <<NL>>
                  \o InsertEntry(text, HistoryEnd(text, p) + 1, entry)
         ELSE <<text[p]>> \o InsertEntry(text, p + 1, entry)

\* an entry that the text holds already is not added again
HistoryStepOnce(text, entry) ==
    IF \E p \in 0..(Len(text) - Len(entry)) :
           SubSeq(text, p + 1, p + Len(entry)) = entry
    THEN text
    ELSE IF \E p \in DOMAIN text : HistoryEnd(text, p) # 0
         THEN InsertEntry(text, 1, entry)
         ELSE text \o <<NL, HistoryHeader, NL, NL>> \o entry \o <<NL>>

\* lines 135-151
HistoryStep(text, entry) ==
    IF \E p \in DOMAIN text : HistoryEnd(text, p) # 0
    THEN InsertEntry(text, 1, entry)
    ELSE text \o <<NL, HistoryHeader, NL, NL>> \o entry \o <<NL>>

\* the text is added to the end of the file
AppendFile(disk, text) == disk \o text

\* lines 155-156: open(goal_path, 'w') and f.write(content): the file is
\* replaced as a whole
WriteFile(disk, text) == text

\* lines 88-161: the text the call works out, the flag `updated` it returns,
\* and the file it leaves (written at lines 154-156 only when updated)
update_goal_metrics(text, data, date) ==
    LET evidence_count == count_evidence_from_reflection(data)
        operations_percent == calculate_operations_percentage(data)
        step == CompletionStep(EvidenceStep(text, evidence_count), operations_percent)
        stamped == SubUpdated(step.content, Today)
        final == IF step.updated
                 THEN HistoryStep(stamped, history_entry(date, evidence_count,
                                                         operations_percent))
                 ELSE stamped
    IN [content |-> final,
        updated |-> step.updated,
        file |-> IF step.updated THEN WriteFile(text, final) ELSE text]

---------------------------------------------------------------------------
(* analyze_reflection.py: the comments written by main; auto_update_metrics.py:
   update_metrics_for_date *)

CommentsHeader == W("## Kommentarii II-sistemy")     \* ## Комментарии ИИ-системы

\* the second-level headers of the documents: the fragments that begin "## "
SecondLevelHeaders ==
    {CommentsHeader, HistoryHeader, W("## UTRO"), W("## DEN"), W("## VECHER"),
     W("## PROGRESS ZA DEN"), W("## REFLEKSIYA")}

\* lines 198-222: the entry and the recommendation of one critical event; the
\* context of the event is one fragment
EventComment(event) ==
    IF event.type = "FORCED_CHANGE"
    THEN [entry |-> << <<W("**FORCED_CHANGE:**"), SP,
                         W("Obnaruzheno kriticheskoe sobytie: "), W(event.keyword)>>,
                       <<W("  - Kontekst: "), W("context"), W("...")>>,
                       <<W("  - Dejstvie: "), W("obnovit cel FORCED_CHANGE")>> >>,
          recommendation |-> <<W("KRITICHNO: vynuzhdennoe izmenenie ("),
                               W(event.keyword), W(")")>>]
    ELSE [entry |-> << <<W("**VOLUNTARY_CHANGE:**"), SP,
                         W("Obnaruzheno pereosmyslenie: "), W(event.keyword)>>,
                       <<W("  - Kontekst: "), W("context"), W("...")>>,
                       <<W("  - Dejstvie: "), W("obnovit cel VOLUNTARY_CHANGE")>> >>,
          recommendation |-> <<W("Obnaruzheno pereosmyslenie prioritetov ("),
                               W(event.keyword), W(")")>>]

\* lines 224-237: the line on the operations
OperationsComment(data) ==
    IF data.operations_percent # NoValue
    THEN LET ops_percent == data.operations_percent.v
         IN IF ops_percent >= 80
            THEN <<W("Otlichnoe vypolnenie operacij ("), Num(ops_percent), W("%)")>>
            ELSE IF ops_percent >= 60
                 THEN <<W("Horoshee vypolnenie operacij ("), Num(ops_percent), W("%)")>>
                 ELSE <<W("Nizkoe vypolnenie operacij ("), Num(ops_percent), W("%)")>>
    ELSE IF Len(data.operations_done) > 0
         THEN <<W("Vypolneno "), Num(Len(data.operations_done)),
                W(" operacionnyh dejstvij.")>>
         ELSE <<W("Ne vypolneno ni odnogo operacionnogo dejstviya.")>>

\* lines 249-254: the line on the evidence
EvidenceComment(data) ==
    IF Len(data.evidence_done) > 0
    THEN <<W("Vy nakopili "), Num(Len(data.evidence_done)), W(" dokazatelstv")>>
    ELSE <<W("Ne zabudte otmechat dejstviya")>>

\* lines 188-299, for a record whose tactics_percent, rating, energy,
\* motivation and focus are None and whose obstacles and helpful_factors are
\* empty (the documents here hold none of these fields)
generate_ai_comments(data) ==
    LET events == [k \in DOMAIN data.critical_events
                      |-> EventComment(data.critical_events[k])]
        recommendations == [k \in DOMAIN events |-> events[k].recommendation]
        adaptations ==
            IF data.operations_percent # NoValue /\ data.operations_percent.v < 50
            THEN << <<W("Rekomenduetsya uprostit operacionnye dejstviya")>> >>
            ELSE <<>>
    IN [analysis |-> <<OperationsComment(data), EvidenceComment(data)>>,
        recommendations |->
            IF recommendations = <<>>
            THEN << <<W("Prodolzhajte otslezhivat progress")>> >>
            ELSE recommendations,
        adaptations |->
            IF adaptations = <<>>
            THEN << <<W("Plan rabotaet horosho")>> >>
            ELSE adaptations,
        critical_events |-> [k \in DOMAIN events |-> events[k].entry]]

\* the lines of a list, each after "- " and ended by a line break
RECURSIVE ListItems(_)
ListItems(lines) ==
    IF lines = <<>> THEN <<>>
    ELSE <<W("- ")>> \o Head(lines) \o <<NL>> \o ListItems(Tail(lines))

\* lines 326-331: an event is one item and two lines under it
RECURSIVE EventItems(_)
EventItems(entries) ==
    IF entries = <<>> THEN <<>>
    ELSE <<W("- ")>> \o Head(entries)[1] \o <<NL>>
         \o Head(entries)[2] \o <<NL>> \o Head(entries)[3] \o <<NL>>
         \o EventItems(Tail(entries))

\* lines 306-331
comments_section(comments) ==
    <<NL, CommentsHeader, NL, NL,
      W("*[Avtomaticheski sgenerirovano posle analiza]*"), NL, NL,
      W("### Analiz progressa:"), NL>>
    \o ListItems(comments.analysis)
    \o <<NL, W("### Rekomendacii:"), NL>>
    \o ListItems(comments.recommendations)
    \o <<NL, W("### Adaptacii:"), NL>>
    \o ListItems(comments.adaptations)
    \o (IF comments.critical_events # <<>>
        THEN <<NL, W("### Kriticheskie sobytiya:"), NL>>
             \o EventItems(comments.critical_events)
        ELSE <<>>)

\* line 336: ## Комментарии ИИ-системы.*?(?=\n## |$) with DOTALL, matched from
\* the header at position p: the last position of the match ($ is the end of
\* the text or the place before its last line break)
SectionEnd(text, p) ==
    CHOOSE q \in p..Len(text) :
        /\ \/ q = Len(text)
           \/ q = Len(text) - 1 /\ text[Len(text)] = NL
           \/ q + 2 <= Len(text) /\ text[q + 1] = NL
                                 /\ text[q + 2] \in SecondLevelHeaders
        /\ \A r \in p..(q - 1) :
               ~ \/ r = Len(text) - 1 /\ text[Len(text)] = NL
                 \/ r + 2 <= Len(text) /\ text[r + 1] = NL
                                       /\ text[r + 2] \in SecondLevelHeaders

\* line 337: re.sub, every section from position p on replaced
RECURSIVE ReplaceSections(_, _, _)
ReplaceSections(text, p, section) ==
    IF p > Len(text) THEN <<>>
    ELSE IF text[p] = CommentsHeader
         THEN section \o ReplaceSections(text, SectionEnd(text, p) + 1, section)
         ELSE <<text[p]>> \o ReplaceSections(text, p + 1, section)

\* lines 301-344: the text written to the reflection file
update_reflection_with_comments(text, comments) ==
    IF Contains(text, CommentsHeader)
    THEN ReplaceSections(text, 1, Strip(comments_section(comments)))
    ELSE RStrip(text) \o <<NL, NL>> \o comments_section(comments)

\* line 50: '**Статус:** active' in content
IsActive(text) ==
    \E p \in 1..(Len(text) - 2) :
        text[p] = StatusLabel /\ text[p + 1] = SP /\ text[p + 2] = W("active")

\* lines 164-199: the goal files left and the value returned
update_metrics_for_date(goal_files, file, date) ==
    IF ~file.exists
    THEN [goals |-> goal_files, result |-> FALSE]
    ELSE LET data == parse_reflection_file(file.content)
             out == [k \in DOMAIN goal_files |->
                        update_goal_metrics(goal_files[k], data, date)]
         IN [goals |-> [k \in DOMAIN goal_files |->
                           IF IsActive(goal_files[k]) THEN out[k].file
                           ELSE goal_files[k]],
             result |-> \E k \in DOMAIN goal_files :
                            IsActive(goal_files[k]) /\ out[k].updated]

---------------------------------------------------------------------------
(* The parser's specification: any document of the pool, then one call *)

MaxLines == 3

\* the item line  - [mark] text
Item(mark, text) == <<W("- "), W(mark), SP>> \o text

LinePool ==
    { <<OperationsHeader>>,
      <<TacticsHeader>>,
      <<EvidenceHeader>>,
      Item("[x]", <<W("ustal")>>),
      Item("[x]", <<W("Gulyat"), SP, W("v"), SP, W("parke")>>),
      Item("[ ]", <<W("chitat")>>),
      Item("[X]", <<W("chitat")>>),
      Item("[ ]", <<W("otmetit"), SP, W("[x]")>>),
      <<>>,
      <<OperationsPercentLabel, SP, W("["), Num(85), W("%"), W("]")>>,
      <<W("byla"), SP, W("AVARIYA")>>,
      <<W("vynuzhdenevozmozhno"), SP, W("Avariya"), SP, W("avariya")>>,
      <<W("Reshil izmenit"), SP, W("plan")>> }

RECURSIVE LinesUpTo(_)
LinesUpTo(k) ==
    IF k = 0 THEN {<<>>}
    ELSE LET shorter == LinesUpTo(k - 1)
         IN shorter \cup {s \o <<l>> : s \in shorter, l \in LinePool}

\* the text of a document: every line ended by a line break
RECURSIVE Render(_)
Render(lines) ==
    IF lines = <<>> THEN <<>> ELSE Head(lines) \o <<NL>> \o Render(Tail(lines))

IdleParse ==
    /\ content = <<>>
    /\ reflection_data = NoValue
    /\ ppc = "idle"

IdleStreaks ==
    /\ habit = NoValue
    /\ days_back = 0
    /\ today = 0
    /\ daily = <<>>
    /\ i = 0
    /\ completion_history = <<>>
    /\ stats = NoValue
    /\ spc = "idle"

IdleMetrics ==
    /\ goal_file = <<>>
    /\ calls = <<>>
    /\ procs = <<>>
    /\ mpc = "idle"

IdleCommands ==
    /\ command = "idle"
    /\ reflection = [exists |-> FALSE, content |-> <<>>]
    /\ goal_docs = <<>>
    /\ returncode = -1
    /\ cpc = "idle"

IdleHabits ==
    /\ habit_goals = <<>>
    /\ active_goals = <<>>
    /\ gk = 0
    /\ all_habits = <<>>
    /\ hpc = "idle"

IdleSchedule ==
    /\ crontab = <<>>
    /\ crontab0 = <<>>
    /\ cron_op = "idle"
    /\ cron_count = 0

IdleValidator ==
    /\ goals_dir = FALSE
    /\ goals = <<>>
    /\ daily_dir = FALSE
    /\ tree = {}
    /\ tree0 = {}
    /\ directories = {}
    /\ fix = FALSE
    /\ report = EmptyReport
    /\ g = 0
    /\ misplaced = {}
    /\ reflection_files = {}
    /\ exit_code = -1
    /\ vpc = "idle"
    /\ pass_no = 0
    /\ first_pass = NoValue

RECURSIVE SeqsUpTo(_, _)
SeqsUpTo(S, k) ==
    IF k = 0 THEN {<<>>}
    ELSE LET shorter == SeqsUpTo(S, k - 1)
         IN shorter \cup {s \o <<x>> : s \in shorter, x \in S}

MaxFreeLines == 4

\* the lines of the documents with free-text sections
FreeLinePool ==
    { <<InsightsHeader>>, <<PlanHeader>>, <<Rule>>, <<>>,
      <<W("ponyal"), SP, W("mnogoe")>>, <<W("### Podrobnosti")>> }

InitParse ==
    /\ content \in {Render(lines) : lines \in LinesUpTo(MaxLines)}
                   \cup {Render(lines) : lines \in SeqsUpTo(FreeLinePool, MaxFreeLines)}
    /\ reflection_data = NoValue
    /\ ppc = "start"
    /\ IdleStreaks
    /\ IdleValidator
    /\ IdleMetrics
    /\ IdleCommands
    /\ IdleHabits
    /\ IdleSchedule

Parse ==
    /\ ppc = "start"
    /\ reflection_data' = parse_reflection_file(content)
    /\ ppc' = "done"
    /\ UNCHANGED <<content, streakVars, validVars, metricVars, commandVars,
                   habitVars, cronVars>>

NextParse == Parse

SpecParse == InitParse /\ [][NextParse]_vars

---------------------------------------------------------------------------
(* The streak calculator's specification: a habit, a window of reflection
   files, then calculate_streaks step by step *)

MaxDays == 10       \* the longest window of the long histories
MaxWindow == 2      \* the longest window over the whole pool of files

PercentLine(k) == <<OperationsPercentLabel, SP, Num(k), W("%")>>

HabitPool ==
    { [name |-> <<W("ESLI"), SP, W("ustal"), SP, W("->"), SP, W("TO"), SP,
                  W("gulyat")>>],
      [name |-> <<W("Posle"), SP, W("obeda"), SP, W("->"), SP, W("chitat")>>] }

\* one operation alone holds a quarter of the first habit's keywords, both
\* together hold half of them
SplitOperations ==
    << <<OperationsHeader>>,
       Item("[x]", <<W("ustal")>>),
       Item("[x]", <<W("Gulyat"), SP, W("v"), SP, W("parke")>>) >>

DoneFile == TextFile(Render(<<PercentLine(85)>>))

FilePool ==
    { MissingFile,
      UnreadableFile,
      DoneFile,
      TextFile(<<>>),
      TextFile(Render(<<PercentLine(80)>>)),
      TextFile(Render(SplitOperations)),
      TextFile(Render(SplitOperations \o <<PercentLine(79)>>)),
      TextFile(Render(<< <<OperationsHeader>>,
                         Item("[x]", <<W("Ustal"), SP, W("i"), SP, W("gulyat")>>),
                         Item("[ ]", <<W("chitat")>>) >>)) }

StartStreaks ==
    /\ i = 0
    /\ completion_history = <<>>
    /\ stats = NoValue
    /\ spc = "collect"

\* long windows over two kinds of day
InitLong ==
    /\ habit \in {h \in HabitPool : h.name[1] = W("ESLI")}
    /\ today = 0
    /\ days_back \in 1..MaxDays
    /\ daily \in [1..days_back -> {MissingFile, DoneFile}]

\* short windows over every kind of day
InitShort ==
    /\ habit \in HabitPool
    /\ today \in {0, 5}
    /\ days_back \in 1..MaxWindow
    /\ daily \in [1..days_back -> FilePool]

InitStreaks ==
    /\ InitLong \/ InitShort
    /\ StartStreaks
    /\ IdleParse
    /\ IdleValidator
    /\ IdleMetrics
    /\ IdleCommands
    /\ IdleHabits
    /\ IdleSchedule

\* lines 129-155: one iteration of the collection loop
CollectDay ==
    /\ spc = "collect"
    /\ i < days_back
    /\ LET completed == DayOutcome(habit, daily[i + 1])
       IN IF completed = "raise"
          THEN /\ spc' = "raised"
               /\ UNCHANGED <<i, completion_history>>
          ELSE /\ completion_history' =
                      Append(completion_history,
                             [date |-> i, completed |-> (completed = "True"),
                              day_of_week |-> DayOfWeek(i)])
               /\ i' = i + 1
               /\ UNCHANGED spc
    /\ UNCHANGED <<habit, days_back, today, daily, stats, parseVars, validVars, metricVars, commandVars,
                   habitVars, cronVars>>

\* lines 157-223: the history is reversed and the statistics are returned
ComputeStatistics ==
    /\ spc = "collect"
    /\ i = days_back
    /\ completion_history' = Reverse(completion_history)
    /\ stats' = Statistics(completion_history')
    /\ spc' = "done"
    /\ UNCHANGED <<habit, days_back, today, daily, i, parseVars, validVars, metricVars, commandVars,
                   habitVars, cronVars>>

NextStreaks == CollectDay \/ ComputeStatistics

SpecStreaks == InitStreaks /\ [][NextStreaks]_vars

---------------------------------------------------------------------------
(* The specification of generate_streaks_data: two goal files, then the
   habits of the active ones *)

MaxHabitLines == 1

HabitLinePool ==
    { IfMark \o <<W("ustal")>> \o ThenMark \o <<W("gulyat")>>,
      AfterMark \o <<W("obeda")>> \o Arrow \o <<W("chitat")>>
          \o Celebration \o <<SP, W("ura")>>,
      IfMark \o AfterMark \o <<W("obeda")>> \o Arrow \o <<W("chitat")>>
          \o ThenMark \o <<W("gulyat")>> }

\* a goal file: the status, a line with a mark and no separator, a tiny
\* habit, then lines of the pool
HabitGoalPool ==
    {Render(<< <<StatusLabel, SP, W(status)>>,
               IfMark \o <<W("ustal")>>,
               AfterMark \o <<W("obeda")>> \o Arrow \o <<W("chitat")>> >> \o lines) :
        status \in {"active", "paused"},
        lines \in SeqsUpTo(HabitLinePool, MaxHabitLines)}

\* the reflections of the days of the window
HabitDaily == <<DoneFile, TextFile(Render(SplitOperations))>>

InitHabits ==
    /\ habit_goals \in {<< [stem |-> "career", content |-> a],
                           [stem |-> "health", content |-> b] >> :
                           a \in HabitGoalPool, b \in HabitGoalPool}
    /\ active_goals = <<>>
    /\ gk = 0
    /\ all_habits = <<>>
    /\ hpc = "start"
    /\ IdleParse
    /\ IdleStreaks
    /\ IdleValidator
    /\ IdleMetrics
    /\ IdleCommands
    /\ IdleSchedule

\* lines 43-52, 229
GetActiveGoals ==
    /\ hpc = "start"
    /\ LET Active(file) == IsActive(file.content)
       IN active_goals' = SelectSeq(habit_goals, Active)
    /\ hpc' = "goals"
    /\ UNCHANGED <<habit_goals, gk, all_habits, parseVars, streakVars, validVars,
                   metricVars, commandVars, cronVars>>

\* lines 233-248: one iteration of the loop over the active goals
ExtractGoal ==
    /\ hpc = "goals"
    /\ gk < Len(active_goals)
    /\ LET goal == active_goals[gk + 1]
           habits == extract_habits(goal.content)
       IN all_habits' =
              all_habits \o
              [k \in 1..Len(habits) |->
                  [name |-> habits[k].name, type |-> habits[k].type,
                   goal |-> goal.stem]
                  @@ calculate_streaks(habits[k], HabitDaily)]
    /\ gk' = gk + 1
    /\ UNCHANGED <<habit_goals, active_goals, hpc, parseVars, streakVars,
                   validVars, metricVars, commandVars, cronVars>>

\* lines 250-253
ReturnHabits ==
    /\ hpc = "goals"
    /\ gk = Len(active_goals)
    /\ hpc' = "done"
    /\ UNCHANGED <<habit_goals, active_goals, gk, all_habits, parseVars,
                   streakVars, validVars, metricVars, commandVars, cronVars>>

NextHabits == GetActiveGoals \/ ExtractGoal \/ ReturnHabits

SpecHabits == InitHabits /\ [][NextHabits]_vars

---------------------------------------------------------------------------
(* The validator's specification: goal files and a daily tree, then
   validate_all step by step *)

MaxGoals == 2       \* the most goal files of a listing drawn from the small pool
MaxFiles == 3       \* the most files of a daily tree

\* the text of a goal document: the required sections but those of `missing`,
\* a status line, the two date lines and a completion percentage
StatusLine(status) ==
    CASE status = "none" -> <<>>
      [] status = "nospace" -> <<StatusLabel, W("active"), NL>>
      [] status = "activeX" -> <<StatusLabel, SP, W("active"), W("X"), NL>>
      [] OTHER -> <<StatusLabel, SP, W(status), NL>>

StatusPool == {"active", "paused", "activeX", "draft", "none", "nospace"}

DateLine(label, valid) ==
    IF valid THEN <<label, SP, Date(20250105), NL>>
    ELSE <<label, SP, W("05.01.2025"), NL>>

PercentPool == {0, 100, 150}

GoalPercentLine(percent) ==
    IF percent = 0 THEN <<>>
    ELSE <<OperationsPercentLabel, SP, Num(percent), W("%"), NL>>

Goal(missing, status, created, updated, percent) ==
    LET Present(k) == k \notin missing
        present == SelectSeq(<<1, 2, 3, 4>>, Present)
    IN Concat([k \in 1..Len(present) |-> <<required_sections[present[k]].pattern, NL>>])
       \o StatusLine(status)
       \o DateLine(CreatedLabel, created)
       \o DateLine(UpdatedLabel, updated)
       \o GoalPercentLine(percent)

GoalFilePool ==
    {TextFile(Goal(missing, status, created, updated, percent)) :
        missing \in SUBSET (1..4), status \in StatusPool,
        created \in BOOLEAN, updated \in BOOLEAN, percent \in PercentPool}
    \cup {UnreadableFile}

ValidGoal == TextFile(Goal({}, "active", TRUE, TRUE, 100))

SmallGoalPool ==
    { ValidGoal,
      TextFile(Goal({}, "active", TRUE, TRUE, 150)),
      TextFile(Goal({4}, "paused", TRUE, FALSE, 0)),
      UnreadableFile }

\* the texts of the reflection files of the tree
FullReflection == Render([k \in 1..Len(recommended_sections) |-> <<recommended_sections[k]>>])
BareReflection == Render(<< <<W("## UTRO")>> >>)

TreeFile(dir, name, text) == [dir |-> dir, name |-> name, content |-> text]

TreePool ==
    { TreeFile(<<>>, DateName("2025", "01", "05", ""), FullReflection),
      TreeFile(<<>>, DateName("2025", "02", "10", ""), BareReflection),
      TreeFile(<<>>, DateName("2025", "01", "05", "-notes"), BareReflection),
      TreeFile(<<>>, OtherName("notes"), FullReflection),
      TreeFile(<<"2025", "01">>, DateName("2025", "01", "05", ""), BareReflection),
      TreeFile(<<"2024", "12">>, DateName("2025", "03", "01", ""), FullReflection) }

SmallTree == {TreeFile(<<"2025", "01">>, DateName("2025", "01", "05", ""), FullReflection)}

RECURSIVE Prefixes(_)
Prefixes(dir) ==
    IF dir = <<>> THEN {} ELSE {dir} \cup Prefixes(SubSeq(dir, 1, Len(dir) - 1))

DirectoriesOf(files) == UNION {Prefixes(f.dir) : f \in files}

\* one goal file of any kind, or several of the small pool
InitGoals ==
    /\ goals_dir = TRUE
    /\ \/ goals \in {<<file>> : file \in GoalFilePool}
       \/ goals \in SeqsUpTo(SmallGoalPool, MaxGoals)
    /\ daily_dir = TRUE
    /\ tree = SmallTree

\* any tree of the pool
InitTree ==
    /\ goals_dir \in BOOLEAN
    /\ goals = IF goals_dir THEN <<ValidGoal>> ELSE <<>>
    /\ daily_dir \in BOOLEAN
    /\ tree \in IF daily_dir
                THEN {files \in SUBSET TreePool : Cardinality(files) <= MaxFiles}
                ELSE {{}}

InitValidator ==
    /\ InitGoals \/ InitTree
    /\ fix \in BOOLEAN
    /\ tree0 = tree
    /\ directories = DirectoriesOf(tree)
    /\ report = EmptyReport
    /\ g = 0
    /\ misplaced = {}
    /\ reflection_files = {}
    /\ exit_code = -1
    /\ vpc = "goals"
    /\ pass_no = 1
    /\ first_pass = NoValue
    /\ IdleParse
    /\ IdleStreaks
    /\ IdleMetrics
    /\ IdleCommands
    /\ IdleHabits
    /\ IdleSchedule

\* lines 280-281: one iteration over goal_files
ValidateGoal ==
    /\ vpc = "goals"
    /\ goals_dir
    /\ g < Len(goals)
    /\ report' = validate_goal_file(goals[g + 1], GoalPath(g + 1), report)
    /\ g' = g + 1
    /\ UNCHANGED <<goals_dir, goals, daily_dir, tree, tree0, directories, fix,
                   misplaced, reflection_files, exit_code, vpc,
                   pass_no, first_pass, parseVars, streakVars, metricVars,
                   commandVars,
                   habitVars, cronVars>>

\* lines 276, 282-286: there is no goals directory
GoalsMissing ==
    /\ vpc = "goals"
    /\ ~goals_dir
    /\ report' = [report EXCEPT !.critical =
                      Append(@, Issue("Direktoriya celej ne sushchestvuet", W(""),
                                      NoPath, ""))]
    /\ vpc' = "structure"
    /\ UNCHANGED <<goals_dir, goals, daily_dir, tree, tree0, directories, fix, g,
                   misplaced, reflection_files, exit_code,
                   pass_no, first_pass, parseVars, streakVars, metricVars,
                   commandVars,
                   habitVars, cronVars>>

\* line 280: the loop over goal_files ends
GoalsChecked ==
    /\ vpc = "goals"
    /\ goals_dir
    /\ g = Len(goals)
    /\ vpc' = "structure"
    /\ UNCHANGED <<goals_dir, goals, daily_dir, tree, tree0, directories, fix,
                   report, g, misplaced, reflection_files, exit_code,
                   pass_no, first_pass, parseVars, streakVars, metricVars,
                   commandVars,
                   habitVars, cronVars>>

\* lines 191-202: validate_reflections_structure lists daily/*.md
ListMisplaced ==
    /\ vpc = "structure"
    /\ IF ~daily_dir
       THEN /\ report' = [report EXCEPT !.critical =
                             Append(@, Issue("Direktoriya refleksij ne sushchestvuet",
                                             W(""), NoPath, ""))]
            /\ misplaced' = {}
       ELSE /\ misplaced' = {f.name : f \in {e \in tree : e.dir = <<>>}}
            /\ UNCHANGED report
    /\ vpc' = "misplaced"
    /\ UNCHANGED <<goals_dir, goals, daily_dir, tree, tree0, directories, fix, g,
                   reflection_files, exit_code,
                   pass_no, first_pass, parseVars, streakVars, metricVars,
                   commandVars,
                   habitVars, cronVars>>

\* lines 204-230: one iteration over misplaced_files
CheckMisplaced ==
    /\ vpc = "misplaced"
    /\ \E name \in misplaced :
        /\ misplaced' = misplaced \ {name}
        /\ IF DateMatch(name)
           THEN /\ report' = [report EXCEPT !.critical =
                                 Append(@, Issue("Nepravilnaya struktura direktorij refleksii",
                                                 W(""), DailyPath(<<>>, name),
                                                 "python scripts/validate_goals.py --fix"))]
                /\ IF fix
                   THEN /\ directories' = Mkdir(directories, correct_dir(name))
                        /\ tree' = Rename(tree, CHOOSE f \in At(tree, <<>>, name) : TRUE,
                                          correct_dir(name))
                   ELSE UNCHANGED <<directories, tree>>
           ELSE /\ report' = [report EXCEPT !.warning =
                                 Append(@, Issue("Nekorrektnoe imya fajla refleksii",
                                                 W(name[1]), DailyPath(<<>>, name), ""))]
                /\ UNCHANGED <<directories, tree>>
    /\ UNCHANGED <<goals_dir, goals, daily_dir, tree0, fix, g, reflection_files,
                   exit_code, vpc,
                   pass_no, first_pass, parseVars, streakVars, metricVars,
                   commandVars,
                   habitVars, cronVars>>

\* line 294: validate_all lists daily/**/*.md
ListReflections ==
    /\ vpc = "misplaced"
    /\ misplaced = {}
    /\ reflection_files' = tree
    /\ vpc' = "reflections"
    /\ UNCHANGED <<goals_dir, goals, daily_dir, tree, tree0, directories, fix,
                   report, g, misplaced, exit_code,
                   pass_no, first_pass, parseVars, streakVars, metricVars,
                   commandVars,
                   habitVars, cronVars>>

\* lines 297-298: one iteration over reflection_files
ValidateReflection ==
    /\ vpc = "reflections"
    /\ \E file \in reflection_files :
        /\ reflection_files' = reflection_files \ {file}
        /\ report' = [report EXCEPT !.recommendation = @ \o ReflectionIssues(file)]
    /\ UNCHANGED <<goals_dir, goals, daily_dir, tree, tree0, directories, fix, g,
                   misplaced, exit_code, vpc,
                   pass_no, first_pass, parseVars, streakVars, metricVars,
                   commandVars,
                   habitVars, cronVars>>

\* lines 300-338: the report is printed and saved, and the exit code returned
Finish ==
    /\ vpc = "reflections"
    /\ reflection_files = {}
    /\ exit_code' = IF has_critical(report) THEN 1 ELSE 0
    /\ vpc' = "done"
    /\ UNCHANGED <<goals_dir, goals, daily_dir, tree, tree0, directories, fix,
                   report, g, misplaced, reflection_files,
                   pass_no, first_pass, parseVars, streakVars, metricVars,
                   commandVars,
                   habitVars, cronVars>>

\* validate_all is run again at once, with or without --fix, after a pass
\* with --fix, on the tree that pass has left
RunAgain ==
    /\ vpc = "done"
    /\ pass_no = 1
    /\ fix
    /\ first_pass' = [fix |-> fix, tree0 |-> tree0, report |-> report,
                      exit_code |-> exit_code]
    /\ pass_no' = 2
    /\ fix' \in BOOLEAN
    /\ tree0' = tree
    /\ report' = EmptyReport
    /\ g' = 0
    /\ exit_code' = -1
    /\ vpc' = "goals"
    /\ UNCHANGED <<goals_dir, goals, daily_dir, tree, directories, misplaced,
                   reflection_files, parseVars, streakVars, metricVars,
                   commandVars, habitVars, cronVars>>

NextValidator ==
    \/ ValidateGoal
    \/ GoalsMissing
    \/ GoalsChecked
    \/ ListMisplaced
    \/ CheckMisplaced
    \/ ListReflections
    \/ ValidateReflection
    \/ Finish
    \/ RunAgain

SpecValidator == InitValidator /\ [][NextValidator]_vars


---------------------------------------------------------------------------
(* The metrics updater's specifications: a goal file and the reflections of
   some days; update_goal_metrics called again and again (SpecMetrics), or
   by two processes at once (SpecRace) *)

MaxCalls == 2       \* the most calls of update_goal_metrics in a row

\* the text of a goal document: a status, the last update, the evidence
\* counters, the completion percentage and the change history, each optional
MetricsGoal(progress, percent, history) ==
    Render(<< <<StatusLabel, SP, W("active")>>,
              <<UpdatedLabel, SP, Date(20250105)>> >>
           \o [k \in 1..Len(progress) |->
                  <<ProgressLabel, SP, Num(progress[k]), W("/10")>>]
           \o [k \in 1..Len(percent) |->
                  <<CompletionLabel, SP, Num(percent[k]), W("%")>>]
           \o (IF history THEN << <<HistoryHeader>>, <<>> >> ELSE <<>>))

MetricsGoalPool ==
    {MetricsGoal(progress, percent, history) :
        progress \in {<<>>, <<0>>, <<8>>, <<10>>, <<3, 8>>},
        percent \in {<<>>, <<50>>},
        history \in BOOLEAN}

\* a goal document where the header of the change history stands twice
TwiceHistoryGoal ==
    MetricsGoal(<<0>>, <<50>>, TRUE) \o Render(<< <<HistoryHeader>>, <<>> >>)

\* the reflection file of each day
DayTexts ==
    << <<>>,
       Render(<< <<EvidenceHeader>>, Item("[x]", <<W("ustal")>>) >>),
       Render(<< <<EvidenceHeader>>, Item("[x]", <<W("ustal")>>),
                 Item("[x]", <<W("chitat")>>), Item("[ ]", <<W("plan")>>),
                 PercentLine(85) >>),
       Render(<< <<OperationsHeader>>, Item("[x]", <<W("chitat")>>),
                 PercentLine(0) >>),
       Render(<< <<OperationsHeader>>, Item("[x]", <<W("chitat")>>) >>),
       Render(<< PercentLine(150) >>) >>

Days == DOMAIN DayTexts

\* date.strftime("%Y-%m-%d") of a day
DayDate(day) == Date(20250100 + day)

\* line 177: the record of each day
DayRecords == [day \in Days |-> parse_reflection_file(DayTexts[day])]
DayRecord(day) == DayRecords[day]

InitMetrics ==
    /\ goal_file \in MetricsGoalPool \cup {TwiceHistoryGoal}
    /\ calls = <<>>
    /\ procs = <<>>
    /\ mpc = "calls"
    /\ IdleParse
    /\ IdleStreaks
    /\ IdleValidator
    /\ IdleCommands
    /\ IdleHabits
    /\ IdleSchedule

\* lines 88-161: one call of update_goal_metrics, for the record of a day
UpdateGoalMetrics ==
    /\ mpc = "calls"
    /\ Len(calls) < MaxCalls
    /\ \E day \in Days :
           LET out == update_goal_metrics(goal_file, DayRecord(day), DayDate(day))
           IN /\ goal_file' = out.file
              /\ calls' = Append(calls, [day |-> day,
                                         before |-> goal_file,
                                         updated |-> out.updated,
                                         written |-> out.updated,
                                         after |-> out.file])
    /\ UNCHANGED <<procs, mpc, parseVars, streakVars, validVars, commandVars,
                   habitVars, cronVars>>

NextMetrics == UpdateGoalMetrics

SpecMetrics == InitMetrics /\ [][NextMetrics]_vars

Procs == {1, 2}

InitRace ==
    /\ goal_file \in MetricsGoalPool
    /\ calls = <<>>
    /\ procs \in [Procs -> {[pc |-> "start", day |-> day, content |-> <<>>,
                              updated |-> FALSE] : day \in Days}]
    /\ mpc = "race"
    /\ IdleParse
    /\ IdleStreaks
    /\ IdleValidator
    /\ IdleCommands
    /\ IdleHabits
    /\ IdleSchedule

\* lines 90-91: a process reads the whole goal file
ReadGoal(p) ==
    /\ mpc = "race"
    /\ procs[p].pc = "start"
    /\ procs' = [procs EXCEPT ![p].pc = "read", ![p].content = goal_file]
    /\ UNCHANGED <<goal_file, calls, mpc, parseVars, streakVars, validVars, commandVars,
                   habitVars, cronVars>>

\* lines 93-161: the process works on the text it has read and, when
\* something was updated, writes the whole file
WriteGoal(p) ==
    /\ mpc = "race"
    /\ procs[p].pc = "read"
    /\ LET out == update_goal_metrics(procs[p].content, DayRecord(procs[p].day),
                                      DayDate(procs[p].day))
       IN /\ goal_file' = IF out.updated THEN WriteFile(goal_file, out.content)
                         ELSE goal_file
          /\ procs' = [procs EXCEPT ![p].pc = "done", ![p].updated = out.updated]
    /\ UNCHANGED <<calls, mpc, parseVars, streakVars, validVars, commandVars,
                   habitVars, cronVars>>

NextRace == \E p \in Procs : ReadGoal(p) \/ WriteGoal(p)

SpecRace == InitRace /\ [][NextRace]_vars

---------------------------------------------------------------------------
(* The specification of the two commands run for a day *)

\* a goal file that is not active
PausedGoal ==
    Render(<< <<StatusLabel, SP, W("paused")>>,
              <<ProgressLabel, SP, Num(3), W("/10")>>,
              <<CompletionLabel, SP, Num(50), W("%")>> >>)

CommandGoalPool ==
    {MetricsGoal(<<8>>, <<50>>, TRUE), MetricsGoal(<<0>>, <<>>, FALSE), PausedGoal}

\* a reflection file that holds comments already, before another section
CommentedReflection(rest) ==
    Render(<< <<EvidenceHeader>>, Item("[x]", <<W("ustal")>>),
              <<CommentsHeader>>, <<W("### Analiz progressa:")>> >>) \o rest

\* the reflection file of the requested day: absent, or one of the texts
ReflectionPool ==
    {[exists |-> FALSE, content |-> <<>>]}
    \cup {[exists |-> TRUE, content |-> DayTexts[day]] : day \in Days}
    \cup {[exists |-> TRUE, content |-> CommentedReflection(rest)] :
             rest \in {<<>>, Render(<< <<W("## REFLEKSIYA")>>, <<W("avariya")>> >>)}}

\* the day asked for with --date
Requested == DayDate(2)

InitCommands ==
    /\ command \in {"analyze", "metrics"}
    /\ reflection \in ReflectionPool
    /\ goal_docs \in SeqsUpTo(CommandGoalPool, MaxGoals)
    /\ returncode = -1
    /\ cpc = "start"
    /\ IdleParse
    /\ IdleStreaks
    /\ IdleValidator
    /\ IdleMetrics
    /\ IdleHabits
    /\ IdleSchedule

\* analyze_reflection.py lines 357-403: main for a day
AnalyzeMain ==
    /\ cpc = "start"
    /\ command = "analyze"
    /\ IF ~reflection.exists
       THEN /\ returncode' = 1
            /\ UNCHANGED reflection
       ELSE /\ reflection' =
                [reflection EXCEPT !.content =
                    update_reflection_with_comments(
                        @, generate_ai_comments(parse_reflection_file(@)))]
            /\ returncode' = 0
    /\ cpc' = "done"
    /\ UNCHANGED <<command, goal_docs, parseVars, streakVars, validVars, metricVars,
                   habitVars, cronVars>>

\* auto_update_metrics.py lines 211-256: main for a day (no --period); the
\* value update_metrics_for_date returns is logged and the process ends
MetricsMain ==
    /\ cpc = "start"
    /\ command = "metrics"
    /\ goal_docs' = update_metrics_for_date(goal_docs, reflection, Requested).goals
    /\ returncode' = 0
    /\ cpc' = "done"
    /\ UNCHANGED <<command, reflection, parseVars, streakVars, validVars, metricVars,
                   habitVars, cronVars>>

NextCommands ==
    \/ AnalyzeMain
    \/ MetricsMain

SpecCommands == InitCommands /\ [][NextCommands]_vars

---------------------------------------------------------------------------
(* schedule_manager.py: the crontab is a sequence of lines, each one ended
   by a line break in the text that `crontab -l` prints *)

CRON_MARKER_START == "# BEGIN plan_expo automation"
CRON_MARKER_END == "# END plan_expo automation"

\* line 92: line.strip() is empty
IsBlank(line) == line \in {"", " ", "  "}

\* lines 77, 80-89: the loop over crontab_content.split('\n'), from the k-th
\* line on (a marker is a line of its own here)
RECURSIVE KeptLines(_, _, _)
KeptLines(lines, k, skip) ==
    IF k > Len(lines) THEN <<>>
    ELSE IF lines[k] = CRON_MARKER_START THEN KeptLines(lines, k + 1, TRUE)
    ELSE IF lines[k] = CRON_MARKER_END THEN KeptLines(lines, k + 1, FALSE)
    ELSE IF skip THEN KeptLines(lines, k + 1, skip)
    ELSE <<lines[k]>> \o KeptLines(lines, k + 1, skip)

\* lines 91-93: the blank lines at the end are dropped
RECURSIVE DropBlankEnd(_)
DropBlankEnd(lines) ==
    IF lines # <<>> /\ IsBlank(lines[Len(lines)])
    THEN DropBlankEnd(SubSeq(lines, 1, Len(lines) - 1))
    ELSE lines

\* lines 75-95, for the lines of a crontab: the text splits into its lines
\* and an empty string after the last line break; what is returned is the
\* lines joined, the empty text when none is left
remove_plan_expo_entries(existing) ==
    DropBlankEnd(KeptLines(existing \o <<"">>, 1, FALSE))

\* lines 104-179: the lines generated for a configuration, here one with or
\* without the health checks
generate_cron_entries(health_checks) ==
    << CRON_MARKER_START, "# Generated at 2025-01-05 21:00:00",
       "# Project: /home/user/plan_expo", "" >>
    \o (IF health_checks
        THEN << "# Health check",
                "0 * * * * cd /home/user/plan_expo && python3 health_check.py", "" >>
        ELSE <<>>)
    \o << CRON_MARKER_END >>

\* lines 184-199: the text install_crontab writes to the temporary file
new_crontab(existing, health_checks) ==
    LET cleaned_crontab == remove_plan_expo_entries(existing)
    IN IF cleaned_crontab # <<>>
       THEN cleaned_crontab \o <<"">> \o generate_cron_entries(health_checks)
       ELSE generate_cron_entries(health_checks)

---------------------------------------------------------------------------
(* The specification of the schedule commands: a crontab, then setup/enable
   and disable in any order *)

MaxCronLines == 3
MaxOperations == 2

CronLinePool ==
    { CRON_MARKER_START, CRON_MARKER_END, "0 3 * * * /usr/bin/backup",
      "MAILTO=admin", "" }

InitSchedule ==
    /\ crontab \in SeqsUpTo(CronLinePool, MaxCronLines)
    /\ crontab0 = crontab
    /\ cron_op = "none"
    /\ cron_count = 0
    /\ IdleParse
    /\ IdleStreaks
    /\ IdleValidator
    /\ IdleMetrics
    /\ IdleCommands
    /\ IdleHabits

\* lines 182-220: install_crontab; the crontab command installs the file or
\* fails and leaves the crontab as it was
InstallCrontab ==
    /\ cron_op # "idle"
    /\ cron_count < MaxOperations
    /\ \E health_checks \in BOOLEAN, installed \in BOOLEAN :
           /\ crontab' = IF installed THEN new_crontab(crontab, health_checks)
                         ELSE crontab
           /\ cron_op' = IF installed THEN "install" ELSE "install failed"
    /\ crontab0' = crontab
    /\ cron_count' = cron_count + 1
    /\ UNCHANGED <<parseVars, streakVars, validVars, metricVars, commandVars,
                   habitVars>>

\* lines 223-246: remove_crontab; the other lines are installed, or the
\* crontab is removed when none is left
RemoveCrontab ==
    /\ cron_op # "idle"
    /\ cron_count < MaxOperations
    /\ crontab' = remove_plan_expo_entries(crontab)
    /\ cron_op' = "remove"
    /\ crontab0' = crontab
    /\ cron_count' = cron_count + 1
    /\ UNCHANGED <<parseVars, streakVars, validVars, metricVars, commandVars,
                   habitVars>>

NextSchedule == InstallCrontab \/ RemoveCrontab

SpecSchedule == InitSchedule /\ [][NextSchedule]_vars

---------------------------------------------------------------------------
(* Claims on the streak calculator (SpecStreaks) *)

\* the entry of completion_history (oldest first) for daily[k]
EntryOf(k) == completion_history[days_back + 1 - k]

Rates ==
    {stats.completion_rate_7d, stats.completion_rate_30d, stats.completion_rate_all}

\* C1: in the statistics calculate_streaks returns, current_streak <= max_streak
\* and the three completion rates lie in [0, 100] (0..1000 tenths of a percent).
C1_StreakStatsBounds ==
    spc = "done" =>
        /\ stats.current_streak <= stats.max_streak
        /\ \A rate \in Rates : rate >= 0 /\ rate <= 1000

\* a window longer than a week that ends in a run shorter than its longest run
C1_Witness ==
    /\ spc = "done"
    /\ days_back > Week
    /\ stats.current_streak > 0
    /\ stats.current_streak < stats.max_streak
    /\ stats.completion_rate_7d # stats.completion_rate_all

\* the 10-day history of C2: days 1 to 7 completed, days 8 to 10 not
C2_History ==
    /\ spc = "done"
    /\ Len(completion_history) = 10
    /\ \A k \in 1..10 : completion_history[k].completed = (k <= 7)

\* C2 as stated: current_streak = 0, max_streak = 7 and completion_rate_7d =
\* round(3/7*100, 1) = 42.9.
C2_AsStated ==
    C2_History =>
        /\ stats.current_streak = 0
        /\ stats.max_streak = 7
        /\ stats.completion_rate_7d = 429

\* C2, amended: current_streak = 0, max_streak = 7 and completion_rate_7d =
\* round(4/7*100, 1) = 57.1: of the trailing days 4 to 10, days 4 to 7 are completed.
C2_TenDayHistory ==
    C2_History =>
        /\ stats.current_streak = 0
        /\ stats.max_streak = 7
        /\ stats.completion_rate_7d = 571

C2_Witness == C2_History /\ stats.completion_rate_all = 700

\* (a), entries taken together: half of the habit's keywords are among the
\* keywords of all the operations_done entries
SharedTogether(h, data) ==
    LET hk == Keywords(h.name)
        ok == UNION {Keywords(data.operations_done[k]) : k \in DOMAIN data.operations_done}
    IN 2 * Cardinality(hk \cap ok) >= Cardinality(hk)

\* (a), entry by entry: half of the habit's keywords are among the keywords of
\* one operations_done entry
SharedWithOne(h, data) ==
    \E k \in DOMAIN data.operations_done :
        LET hk == Keywords(h.name)
        IN 2 * Cardinality(hk \cap Keywords(data.operations_done[k])) >= Cardinality(hk)

\* (b) operations_percent is recorded and >= 80
HighPercent(data) ==
    data.operations_percent # NoValue /\ data.operations_percent.v >= 80

Parsed(k) == parse_reflection_file(daily[k].content)

\* C3 as stated: a day with a record is completed iff (a) half of the habit's
\* keywords appear among the keywords of the day's operations_done entries taken
\* together, or (b) operations_percent >= 80.
C3_AsStated ==
    spc = "done" =>
        \A k \in 1..days_back :
            LET data == Parsed(k)
            IN daily[k].readable =>
                   (EntryOf(k).completed <=>
                       SharedTogether(habit, data) \/ HighPercent(data))

\* C3, amended: a day with a record is completed iff (a) half of the habit's
\* keywords appear among the keywords of one single operations_done entry, or
\* (b) operations_percent >= 80.
C3_CompletionRule ==
    spc = "done" =>
        \A k \in 1..days_back :
            LET data == Parsed(k)
            IN daily[k].readable =>
                   (EntryOf(k).completed <=>
                       SharedWithOne(habit, data) \/ HighPercent(data))

\* a day whose entries only together hold half of the keywords, and a day that
\* is completed by the percentage alone
C3_Witness ==
    /\ spc = "done"
    /\ \E k \in 1..days_back :
           /\ daily[k].readable
           /\ SharedTogether(habit, Parsed(k))
           /\ ~EntryOf(k).completed
    /\ \E k \in 1..days_back :
           /\ daily[k].readable
           /\ Parsed(k).operations_done = <<>>
           /\ EntryOf(k).completed

\* the completion check of the record of daily[k]
Checked(k) == check_habit_completion(habit, Parsed(k))

\* C4: no exception leaves calculate_streaks; the history has one entry per day
\* of the window; a day without a document, or whose parsing or check raises, is
\* not completed, and every other day has the value of its own completion check.
C4_FailSafeDay ==
    /\ spc # "raised"
    /\ spc = "collect" => Len(completion_history) = i
    /\ spc = "done" =>
        /\ Len(completion_history) = days_back
        /\ \A k \in 1..days_back :
            /\ EntryOf(k).date = k - 1
            /\ LET checked == IF daily[k].readable THEN Checked(k) ELSE "none"
               IN IF ~daily[k].exists \/ ~daily[k].readable \/ checked = "TypeError"
                  THEN ~EntryOf(k).completed
                  ELSE EntryOf(k).completed <=> (checked = "True")

\* an unreadable day and a day whose check raises, next to a completed day
C4_Witness ==
    /\ spc = "done"
    /\ \E k \in 1..days_back :
           \/ daily[k].exists /\ ~daily[k].readable
           \/ daily[k].readable /\ Checked(k) = "TypeError"
    /\ \E k \in 1..days_back : EntryOf(k).completed

\* the runs of completed days of completion_history, as <<first, last>>
CompletedRuns ==
    {run \in (DOMAIN completion_history) \X (DOMAIN completion_history) :
        /\ run[1] <= run[2]
        /\ \A k \in run[1]..run[2] : completion_history[k].completed}

\* the lengths of the suffixes of completion_history that hold completed days only
CompletedSuffixes ==
    {m \in 0..Len(completion_history) :
        \A k \in (Len(completion_history) - m + 1)..Len(completion_history) :
            completion_history[k].completed}

\* C20: current_streak is the length of the longest suffix of the history
\* (oldest first) that holds completed days only, 0 exactly when the most recent
\* day is not completed; max_streak is the length of the longest run of
\* completed days anywhere; when every day is completed both are the length of
\* the window.
C20_Streaks ==
    spc = "done" =>
        LET n == Len(completion_history)
        IN /\ n = days_back
           /\ stats.current_streak \in CompletedSuffixes
           /\ \A m \in CompletedSuffixes : m <= stats.current_streak
           /\ stats.current_streak = 0 <=> ~completion_history[n].completed
           /\ \A run \in CompletedRuns : run[2] - run[1] + 1 <= stats.max_streak
           /\ \/ stats.max_streak = 0 /\ CompletedRuns = {}
              \/ \E run \in CompletedRuns : run[2] - run[1] + 1 = stats.max_streak
           /\ (\A k \in 1..n : completion_history[k].completed)
                  => stats.current_streak = n /\ stats.max_streak = n

\* a window that ends in two completed days after a gap, with a run of three
\* before it
C20_Witness ==
    /\ spc = "done"
    /\ Len(completion_history) >= 7
    /\ stats.current_streak = 2
    /\ stats.max_streak = 3
    /\ ~completion_history[Len(completion_history) - 2].completed
    /\ ~completion_history[Len(completion_history) - 3].completed

\* the weekdays of a list, and the place of a weekday in day_stats
DaysOf(list) == {list[k] : k \in DOMAIN list}
PlaceOf(day) == CHOOSE m \in DOMAIN stats.day_stats : stats.day_stats[m].day = day
StatOf(day) == stats.day_stats[PlaceOf(day)]
StatDays == {stats.day_stats[m].day : m \in DOMAIN stats.day_stats}
SameRate(a, b) == ~Higher(a, b) /\ ~Higher(b, a)

\* what C21 says of both lists but for the ties: at most two weekdays each,
\* none twice, best_days at 50 or above with no weekday left out above one of
\* them, worst_days below 50 with no weekday left out below one of them, and no
\* weekday in both
WeekdayListsSound ==
    /\ Len(stats.best_days) <= 2
    /\ Len(stats.worst_days) <= 2
    /\ Cardinality(DaysOf(stats.best_days)) = Len(stats.best_days)
    /\ Cardinality(DaysOf(stats.worst_days)) = Len(stats.worst_days)
    /\ DaysOf(stats.best_days) \cup DaysOf(stats.worst_days) \subseteq StatDays
    /\ \A d \in DaysOf(stats.best_days) :
           /\ 2 * StatOf(d).done >= StatOf(d).total
           /\ \A e \in StatDays \ DaysOf(stats.best_days) :
                  ~Higher(StatOf(e), StatOf(d))
    /\ \A d \in DaysOf(stats.worst_days) :
           /\ 2 * StatOf(d).done < StatOf(d).total
           /\ \A e \in StatDays \ DaysOf(stats.worst_days) :
                  ~Higher(StatOf(d), StatOf(e))
    /\ DaysOf(stats.best_days) \cap DaysOf(stats.worst_days) = {}

\* among equal percentages best_days takes the weekday that entered day_stats
\* first
BestTakesFirst ==
    \A d \in DaysOf(stats.best_days) :
        \A e \in StatDays \ DaysOf(stats.best_days) :
            SameRate(StatOf(d), StatOf(e)) => PlaceOf(d) < PlaceOf(e)

\* C21 as stated: the lists are sound, and among equal percentages the weekday
\* that entered day_stats first is preferred, in best_days and in worst_days.
C21_AsStated ==
    spc = "done" =>
        /\ WeekdayListsSound
        /\ BestTakesFirst
        /\ \A d \in DaysOf(stats.worst_days) :
               \A e \in StatDays \ DaysOf(stats.worst_days) :
                   SameRate(StatOf(d), StatOf(e)) => PlaceOf(d) < PlaceOf(e)

\* C21: the lists are sound; among equal percentages best_days takes the
\* weekday that entered day_stats first and worst_days the one that entered it
\* last.
C21_WeekdayLists ==
    spc = "done" =>
        /\ WeekdayListsSound
        /\ BestTakesFirst
        /\ \A d \in DaysOf(stats.worst_days) :
               \A e \in StatDays \ DaysOf(stats.worst_days) :
                   SameRate(StatOf(d), StatOf(e)) => PlaceOf(d) > PlaceOf(e)

\* three weekdays or more at the same percentage at each end: a weekday left
\* out of worst_days that entered before the two taken, and one left out of
\* best_days that entered after the two taken
C21_Witness ==
    /\ spc = "done"
    /\ Len(stats.best_days) = 2
    /\ Len(stats.worst_days) = 2
    /\ \E d \in DaysOf(stats.worst_days) :
           \E e \in StatDays \ DaysOf(stats.worst_days) :
               SameRate(StatOf(d), StatOf(e)) /\ PlaceOf(e) < PlaceOf(d)
    /\ \E d \in DaysOf(stats.best_days) :
           \E e \in StatDays \ DaysOf(stats.best_days) :
               SameRate(StatOf(d), StatOf(e)) /\ PlaceOf(d) < PlaceOf(e)

---------------------------------------------------------------------------
(* Claims on the parser and the detector (SpecParse) *)

Lacks(text, header) == \A p \in DOMAIN text : text[p] # header

\* pattern occurs in text, fragment by fragment
Occurs(text, pattern) ==
    \E p \in 0..(Len(text) - Len(pattern)) :
        SubSeq(text, p + 1, p + Len(pattern)) = pattern

\* header occurs exactly once in text
Once(text, header) == Cardinality({p \in DOMAIN text : text[p] = header}) = 1

\* C5: a document that lacks a checklist header yields the empty done list for
\* it, and the fields whose anchors it holds are extracted all the same: the
\* percentage after its label, the checked items under another header (that
\* occurs once).
C5_MissingHeader ==
    ppc = "done" =>
        /\ Lacks(content, OperationsHeader) => reflection_data.operations_done = <<>>
        /\ Lacks(content, TacticsHeader) => reflection_data.tactics_done = <<>>
        /\ Lacks(content, EvidenceHeader) => reflection_data.evidence_done = <<>>
        /\ Occurs(content, <<OperationsPercentLabel, SP, W("["), Num(85)>>)
               => reflection_data.operations_percent = [none |-> FALSE, v |-> 85]
        /\ (/\ Once(content, TacticsHeader)
            /\ Occurs(content, <<TacticsHeader, NL>> \o Item("[x]", <<W("ustal"), NL>>)))
               => reflection_data.tactics_done[1] = <<W("ustal")>>
        /\ (/\ Once(content, EvidenceHeader)
            /\ Occurs(content, <<EvidenceHeader, NL>> \o Item("[x]", <<W("ustal"), NL>>)))
               => reflection_data.evidence_done[1] = <<W("ustal")>>

\* no operations header, and a tactics block and a percentage that are extracted
C5_Witness ==
    /\ ppc = "done"
    /\ Lacks(content, OperationsHeader)
    /\ Once(content, TacticsHeader)
    /\ reflection_data.operations_done = <<>>
    /\ reflection_data.tactics_done # <<>>
    /\ reflection_data.operations_percent # NoValue

\* the lines of a document (the text ends with a line break)
DocLines(text) ==
    LET lines == SplitLines(text) IN SubSeq(lines, 1, Len(lines) - 1)

IsCheckedItem(line) ==
    Len(line) >= 4 /\ SubSeq(line, 1, 3) = <<W("- "), W("[x]"), SP>>
IsUncheckedItem(line) ==
    Len(line) >= 4 /\ SubSeq(line, 1, 3) = <<W("- "), W("[ ]"), SP>>
ItemText(line) == SubSeq(line, 4, Len(line))

\* a document that is the operations header followed by checked and unchecked
\* items only
IsChecklistDocument(text) ==
    /\ text # <<>>
    /\ LET lines == DocLines(text)
       IN /\ Head(lines) = <<OperationsHeader>>
          /\ \A k \in 2..Len(lines) :
                 IsCheckedItem(lines[k]) \/ IsUncheckedItem(lines[k])

CheckedTexts(text) ==
    LET checked == SelectSeq(Tail(DocLines(text)), IsCheckedItem)
    IN [k \in 1..Len(checked) |-> ItemText(checked[k])]

\* C6: a document whose operations header is followed by N checked and M
\* unchecked items is extracted to operations_done = the N checked texts, in
\* document order.
C6_RoundTrip ==
    ppc = "done" /\ IsChecklistDocument(content)
        => reflection_data.operations_done = CheckedTexts(content)

\* C7: a text that holds "avariya" in any letter case yields an event of type
\* FORCED_CHANGE with confidence "high", and no VOLUNTARY_CHANGE event has
\* confidence "high".
C7_Accident ==
    ppc = "done" =>
        /\ (\E p \in DOMAIN content : content[p].t \in {"avariya", "Avariya", "AVARIYA"})
              => \E k \in DOMAIN reflection_data.critical_events :
                     /\ reflection_data.critical_events[k].type = "FORCED_CHANGE"
                     /\ reflection_data.critical_events[k].confidence = "high"
        /\ \A k \in DOMAIN reflection_data.critical_events :
               reflection_data.critical_events[k].type = "VOLUNTARY_CHANGE"
                   => reflection_data.critical_events[k].confidence # "high"

\* the word in upper case, next to a voluntary change
C7_Witness ==
    /\ ppc = "done"
    /\ \E p \in DOMAIN content : content[p].t = "AVARIYA"
    /\ \E k \in DOMAIN reflection_data.critical_events :
           reflection_data.critical_events[k].type = "VOLUNTARY_CHANGE"
    /\ \E k \in DOMAIN reflection_data.critical_events :
           reflection_data.critical_events[k].confidence = "high"

\* the keywords of both lists, and the places of a text where a keyword
\* occurs, upper or lower case
Lexicon ==
    {forced_keywords[k] : k \in DOMAIN forced_keywords}
        \cup {voluntary_keywords[k] : k \in DOMAIN voluntary_keywords}
PlacesOf(keyword, text) ==
    {p \in DOMAIN text : Holds(lower(text[p].t), keyword)}
EventsOf(keyword) ==
    {e \in DOMAIN reflection_data.critical_events :
        reflection_data.critical_events[e].keyword = keyword}

\* C22: detect_critical_events returns one event for every keyword of the two
\* lists that occurs in the text, upper or lower case, however often it occurs
\* and whether or not two keywords share letters of the text, and no event for
\* a keyword that does not occur: as many events as keywords that match.
C22_OneEventPerKeyword ==
    ppc = "done" =>
        /\ \A keyword \in Lexicon :
               Cardinality(EventsOf(keyword))
                   = IF PlacesOf(keyword, content) # {} THEN 1 ELSE 0
        /\ Len(reflection_data.critical_events)
               = Cardinality({keyword \in Lexicon : PlacesOf(keyword, content) # {}})
        /\ \A e \in DOMAIN reflection_data.critical_events :
               reflection_data.critical_events[e].type
                   = IF \E k \in DOMAIN forced_keywords :
                           forced_keywords[k] = reflection_data.critical_events[e].keyword
                     THEN "FORCED_CHANGE" ELSE "VOLUNTARY_CHANGE"

\* a text where one keyword occurs three times, two keywords share a letter,
\* and a fourth is of the other list: four events
C22_Witness ==
    /\ ppc = "done"
    /\ Cardinality(PlacesOf("avariya", content)) >= 3
    /\ PlacesOf("vynuzhden", content) = PlacesOf("nevozmozhno", content)
    /\ PlacesOf("vynuzhden", content) # {}
    /\ PlacesOf("reshil izmenit", content) # {}
    /\ Len(reflection_data.critical_events) = 4

\* an item with the mark in upper case, and a document that is the operations
\* header followed by items of the three kinds whose texts hold no mark
IsUpperItem(line) ==
    Len(line) >= 4 /\ SubSeq(line, 1, 3) = <<W("- "), W("[X]"), SP>>
IsMarkedDocument(text) ==
    /\ text # <<>>
    /\ LET lines == DocLines(text)
       IN /\ Head(lines) = <<OperationsHeader>>
          /\ \A k \in 2..Len(lines) :
                 /\ IsCheckedItem(lines[k]) \/ IsUpperItem(lines[k])
                        \/ IsUncheckedItem(lines[k])
                 /\ \A p \in 4..Len(lines[k]) : lines[k][p].t \notin {"[x]", "[X]"}

\* C23: in a checklist block an item marked [X] is taken like one marked [x]:
\* the done list holds the texts of the items marked [x] or [X], in document
\* order, whatever precedes them in the block, and no text of a "- [ ]" item.
C23_UppercaseMark ==
    ppc = "done" /\ IsMarkedDocument(content) =>
        LET Marked(line) == IsCheckedItem(line) \/ IsUpperItem(line)
            marked == SelectSeq(Tail(DocLines(content)), Marked)
        IN reflection_data.operations_done
               = [k \in 1..Len(marked) |-> ItemText(marked[k])]

\* a line that is a header or a horizontal rule
IsBoundaryLine(line) == line # <<>> /\ Head(line) \in Boundaries

\* the trimmed text of the lines between the first line that is the header
\* and the next header or rule line
SectionText(text, header) ==
    LET lines == DocLines(text)
        heads == {k \in DOMAIN lines : lines[k] = <<header>>}
    IN IF heads = {} THEN <<>>
       ELSE LET k == CHOOSE x \in heads : \A y \in heads : x <= y
                stops == {j \in (k + 1)..Len(lines) : IsBoundaryLine(lines[j])}
                j == IF stops = {} THEN Len(lines) + 1
                     ELSE CHOOSE x \in stops : \A y \in stops : x <= y
            IN Strip(Render(SubSeq(lines, k + 1, j - 1)))

\* C24: the value of a free-text section is the trimmed text between its
\* header line and the next header or rule line, with or without a blank line
\* after the header; it holds no header or rule line, and it is empty when no
\* text precedes the next boundary.
C24_SectionBetweenBoundaries ==
    ppc = "done" /\ content # <<>> =>
        /\ reflection_data.insights = SectionText(content, InsightsHeader)
        /\ reflection_data.plan_tomorrow = SectionText(content, PlanHeader)

---------------------------------------------------------------------------
(* Claims on the habit list (SpecHabits) *)

\* the places in a line where a pattern matches: the mark, then a separator
\* with text before it and after it
MatchPlaces(line, mark, separator) ==
    {p \in DOMAIN line :
        /\ StandsAt(line, p, mark)
        /\ \E q \in (p + Len(mark) + 1)..(Len(line) - Len(separator)) :
               StandsAt(line, q, separator)}

KindMark(kind) == IF kind = "tiny_habit" THEN AfterMark ELSE IfMark
KindSeparator(kind) == IF kind = "tiny_habit" THEN Arrow ELSE ThenMark
MatchesKind(line, kind) == MatchPlaces(line, KindMark(kind), KindSeparator(kind)) # {}

Kinds == {"implementation_intention", "tiny_habit"}

\* the name a matching line gives: the line from the word of the mark on, up
\* to the celebration clause in a tiny habit
NameOfLine(line, kind) ==
    LET places == MatchPlaces(line, KindMark(kind), KindSeparator(kind))
        p == CHOOSE x \in places : \A y \in places : x <= y
        clauses == {c \in DOMAIN line : c > p /\ StandsAt(line, c, Celebration)}
    IN IF kind = "tiny_habit" /\ clauses # {}
       THEN SubSeq(line, p + 1, (CHOOSE c \in clauses : \A r \in clauses : c <= r) - 1)
       ELSE SubSeq(line, p + 1, Len(line))

\* the places of the lines of a goal file matched by the pattern of a kind
\* and giving a name
LinesNamed(file, name, kind) ==
    LET lines == DocLines(file.content)
    IN {k \in DOMAIN lines :
           MatchesKind(lines[k], kind) /\ NameOfLine(lines[k], kind) = name}

\* the places of the entries of a goal whose name and kind are given
EntriesNamed(stem, name, kind) ==
    {e \in DOMAIN all_habits :
        /\ all_habits[e].goal = stem
        /\ all_habits[e].name = name
        /\ all_habits[e].type = kind}

HabitNames == {all_habits[e].name : e \in DOMAIN all_habits}

LineNames(file) ==
    LET lines == DocLines(file.content)
    IN {NameOfLine(lines[k], kind) :
           k \in {x \in DOMAIN lines : MatchesKind(lines[x], "tiny_habit")},
           kind \in {"tiny_habit"}}
       \cup
       {NameOfLine(lines[k], kind) :
           k \in {x \in DOMAIN lines : MatchesKind(lines[x], "implementation_intention")},
           kind \in {"implementation_intention"}}

\* nothing is merged and nothing is added: under every name and kind a goal
\* has as many entries as it has lines matched by the pattern of the kind
\* and giving the name, none when it is not active; no name keeps a
\* celebration clause
NothingMerged ==
    /\ \A f \in DOMAIN habit_goals :
           \A name \in HabitNames \cup LineNames(habit_goals[f]) :
               \A kind \in Kinds :
                   Cardinality(EntriesNamed(habit_goals[f].stem, name, kind))
                       = IF IsActive(habit_goals[f].content)
                         THEN Cardinality(LinesNamed(habit_goals[f], name, kind))
                         ELSE 0
    /\ \A e \in DOMAIN all_habits :
           \A p \in DOMAIN all_habits[e].name :
               all_habits[e].name[p] # W("prazdnuyu:")

\* the entries of a goal
EntriesOf(stem) == {e \in DOMAIN all_habits : all_habits[e].goal = stem}

\* C25 as stated: one entry for every line of an active goal that matches
\* the if-then pattern or the tiny-habit pattern, and nothing merged.
C25_AsStated ==
    hpc = "done" =>
        /\ NothingMerged
        /\ \A f \in DOMAIN habit_goals :
               IsActive(habit_goals[f].content) =>
                   LET lines == DocLines(habit_goals[f].content)
                   IN Cardinality(EntriesOf(habit_goals[f].stem))
                          = Cardinality({k \in DOMAIN lines :
                                \E kind \in Kinds : MatchesKind(lines[k], kind)})

\* C25: one entry for every match of a pattern: a line gives an entry of the
\* kind implementation_intention when the if-then pattern matches in it, and
\* an entry of the kind tiny_habit when the tiny-habit pattern matches in it
\* (two entries for a line where both match), under the name of the match
\* without its celebration clause; nothing is merged, in one goal or over
\* two goals.
C25_OneHabitPerMatch ==
    hpc = "done" =>
        /\ NothingMerged
        /\ \A f \in DOMAIN habit_goals :
               IsActive(habit_goals[f].content) =>
                   LET lines == DocLines(habit_goals[f].content)
                   IN Cardinality(EntriesOf(habit_goals[f].stem))
                          = Cardinality({k \in DOMAIN lines :
                                MatchesKind(lines[k], "implementation_intention")})
                            + Cardinality({k \in DOMAIN lines :
                                MatchesKind(lines[k], "tiny_habit")})

\* two entries of one name in one goal, the same name again in the other
\* goal, one of the lines with a celebration clause, and a line where both
\* patterns match
C25_Witness ==
    /\ hpc = "done"
    /\ \E a, b, c \in DOMAIN all_habits :
           /\ a < b
           /\ all_habits[a].goal = all_habits[b].goal
           /\ all_habits[c].goal # all_habits[a].goal
           /\ all_habits[a].name = all_habits[b].name
           /\ all_habits[c].name = all_habits[a].name
           /\ all_habits[a].type = "tiny_habit"
    /\ \E f \in DOMAIN habit_goals :
           /\ IsActive(habit_goals[f].content)
           /\ \E p \in DOMAIN habit_goals[f].content :
                  habit_goals[f].content[p] = W("prazdnuyu:")
    /\ \E f \in DOMAIN habit_goals :
           /\ IsActive(habit_goals[f].content)
           /\ \E k \in DOMAIN DocLines(habit_goals[f].content) :
                  \A kind \in Kinds : MatchesKind(DocLines(habit_goals[f].content)[k], kind)

---------------------------------------------------------------------------
(* Claims on the validator (SpecValidator) *)

\* the CRITICAL issues of the report recorded for the k-th goal file
CriticalOf(k) ==
    LET OfFile(issue) == issue.file = GoalPath(k)
    IN SelectSeq(report.critical, OfFile)

WarningsOf(k) ==
    LET OfFile(issue) == issue.file = GoalPath(k)
    IN SelectSeq(report.warning, OfFile)

\* the required headers a text lacks, by their place in the list
LackingSections(text) ==
    {s \in 1..4 : Lacks(text, required_sections[s].pattern)}

\* a status line with one of the four values and nothing after it
ValidStatusLine(text) ==
    \E v \in valid_statuses : Occurs(text, <<StatusLabel, SP, W(v), NL>>)

\* C8: a validated goal document that lacks exactly one required header and
\* has a valid status has exactly one CRITICAL issue, which names the missing
\* section; a document that lacks only the change-history header has the one
\* CRITICAL issue for "Istoriya izmenenij" and none for the other three.
C8_OneMissingSection ==
    \A k \in 1..g :
        LET text == goals[k].content
        IN /\ (/\ goals[k].readable
               /\ Cardinality(LackingSections(text)) = 1
               /\ ValidStatusLine(text))
                  => \E s \in LackingSections(text) :
                         CriticalOf(k) = <<Issue("Otsutstvuet sekciya",
                                                 required_sections[s].name,
                                                 GoalPath(k), "")>>
           /\ (/\ goals[k].readable
               /\ LackingSections(text) = {4}
               /\ ValidStatusLine(text))
                  => CriticalOf(k) = <<Issue("Otsutstvuet sekciya",
                                             W("Istoriya izmenenij"),
                                             GoalPath(k), "")>>

\* a validated document without the change-history header only, after another
\* goal file
C8_Witness ==
    \E k \in 2..g :
        /\ goals[k].readable
        /\ LackingSections(goals[k].content) = {4}
        /\ ValidStatusLine(goals[k].content)
        /\ Len(CriticalOf(k)) = 1

\* the numbers above 100 that a percent sign follows, by their place in text
HighPercentAt(text) ==
    {p \in 1..(Len(text) - 1) :
        text[p].t = "num" /\ text[p].n > 100 /\ text[p + 1] = W("%")}

\* a goal document with no fault but its percentages
SoundButPercent(file) ==
    /\ file.readable
    /\ LackingSections(file.content) = {}
    /\ ValidStatusLine(file.content)

\* a tree with no dated file directly under daily/
WellPlaced(files) == \A f \in files : f.dir = <<>> => ~DateMatch(f.name)

\* C9: a percentage above 100 in a validated goal document is a WARNING issue
\* of that file and no CRITICAL one; the other checks of that file and of the
\* other files report their issues all the same (every goal file of the
\* listing is validated, a missing header and a missing status are CRITICAL, a
\* missing date is a WARNING); and a run whose only fault is such a percentage
\* exits with 0.
C9_HighPercentWarning ==
    /\ \A k \in 1..g :
           LET text == goals[k].content
           IN goals[k].readable =>
               /\ \A p \in HighPercentAt(text) :
                      \E w \in DOMAIN WarningsOf(k) :
                          WarningsOf(k)[w] = Issue("Procent vyshe 100%", text[p],
                                                   GoalPath(k), "")
               /\ \A c \in DOMAIN CriticalOf(k) :
                      CriticalOf(k)[c].message # "Procent vyshe 100%"
               /\ \A s \in LackingSections(text) :
                      \E c \in DOMAIN CriticalOf(k) :
                          CriticalOf(k)[c] = Issue("Otsutstvuet sekciya",
                                                   required_sections[s].name,
                                                   GoalPath(k), "")
               /\ Lacks(text, StatusLabel) =>
                      \E c \in DOMAIN CriticalOf(k) :
                          CriticalOf(k)[c].message
                              = "Nekorrektnyj ili otsutstvuyushchij status"
               /\ Lacks(text, Date(20250105)) => Len(WarningsOf(k)) >= 2
    /\ (vpc # "goals" /\ goals_dir) => g = Len(goals)
    /\ (/\ vpc = "done"
        /\ goals_dir
        /\ daily_dir
        /\ \A k \in 1..Len(goals) : SoundButPercent(goals[k])
        /\ WellPlaced(tree0))
           => exit_code = 0

\* a run that exits with 0 over a document with 150%, and a run where a document
\* with 150% comes before one that lacks a header
C9_Witness ==
    /\ vpc = "done"
    /\ \E k \in 1..Len(goals) :
           /\ goals[k].readable
           /\ HighPercentAt(goals[k].content) # {}
           /\ \/ exit_code = 0
              \/ /\ k < Len(goals)
                 /\ SoundButPercent(goals[k])
                 /\ goals[k + 1].readable
                 /\ LackingSections(goals[k + 1].content) # {}
                 /\ CriticalOf(k + 1) # <<>>

\* the files directly under daily/ whose name begins with a date, before the run
FlatDated == {f \in tree0 : f.dir = <<>> /\ DateMatch(f.name)}

\* validate_reflections_structure has returned
StructureChecked ==
    \/ vpc = "misplaced" /\ misplaced = {}
    \/ vpc \in {"reflections", "done"}

\* C10: when validate_reflections_structure has returned, every dated file that
\* was directly under daily/ has a CRITICAL issue; with fix it is at
\* daily/YYYY/MM/ under its own name, with its content, the two directories
\* exist, and nothing of that name is left directly under daily/; without fix
\* the tree and its directories never change.
C10_MisplacedReflection ==
    /\ ~fix => tree = tree0 /\ directories = DirectoriesOf(tree0)
    /\ StructureChecked =>
           \A f \in FlatDated :
               /\ \E c \in DOMAIN report.critical :
                      /\ report.critical[c].file = DailyPath(<<>>, f.name)
                      /\ report.critical[c].message
                             = "Nepravilnaya struktura direktorij refleksii"
               /\ fix =>
                      /\ TreeFile(<<f.name[1], f.name[2]>>, f.name, f.content) \in tree
                      /\ At(tree, <<>>, f.name) = {}
                      /\ {<<f.name[1]>>, <<f.name[1], f.name[2]>>} \subseteq directories

\* a fixed run that moved 2025-02-10.md to daily/2025/02/, which it had to create
C10_Witness ==
    /\ vpc = "done"
    /\ fix
    /\ \E f \in FlatDated :
           /\ f.name = DateName("2025", "02", "10", "")
           /\ <<"2025", "02">> \notin DirectoriesOf(tree0)
           /\ <<"2025", "02">> \in directories
           /\ TreeFile(<<"2025", "02">>, f.name, f.content) \in tree

\* C11: a finished validation run has a non-zero exit code exactly when its
\* report holds a CRITICAL issue; WARNING and RECOMMENDATION issues, in any
\* number, leave the exit code 0; with fix and without.
C11_ExitCode ==
    vpc = "done" =>
        /\ exit_code \in {0, 1}
        /\ exit_code # 0 <=> report.critical # <<>>

\* a fixed run that ends with 0 over a report of warnings and recommendations
C11_Witness ==
    /\ vpc = "done"
    /\ fix
    /\ report.critical = <<>>
    /\ report.warning # <<>>
    /\ report.recommendation # <<>>
    /\ exit_code = 0

\* C17: a validated goal document has the CRITICAL issue for its status exactly
\* when it has no status field or the value of the field is not one of the four
\* words, with nothing after the word (activeX is not one of them).
C17_StatusExact ==
    \A k \in 1..g :
        goals[k].readable =>
            ((\E c \in DOMAIN CriticalOf(k) :
                  CriticalOf(k)[c].message
                      = "Nekorrektnyj ili otsutstvuyushchij status")
                <=> ~ValidStatusLine(goals[k].content))

\* the issues of the report, of every level, that name a path
IssuesOf(path) ==
    LET OfFile(issue) == issue.file = path
    IN SelectSeq(report.critical \o report.warning \o report.recommendation, OfFile)

\* a file at daily/<year>/<month>/ of the date its name begins with
InOwnDirectory(f) == DateMatch(f.name) /\ f.dir = <<f.name[1], f.name[2]>>

\* C18: a finished run has an issue for every reflection file of the tree
\* that was not at daily/<year>/<month>/<date>.md of its own date, the files in
\* a year or month directory of another date included.
C18_EveryMisplacedReported ==
    (vpc = "done" /\ daily_dir) =>
        \A f \in tree0 :
            ~InOwnDirectory(f) => IssuesOf(DailyPath(f.dir, f.name)) # <<>>

\* C27: a pass with --fix destroys no reflection: the content of every file
\* that stood in a year/month directory before the pass, the target of a
\* move among them, still stands at its path after the pass.
C27_TargetKept ==
    vpc = "done" /\ fix =>
        \A file \in tree0 : file.dir # <<>> => file \in tree

WrongLocation == "Nepravilnaya struktura direktorij refleksii"

\* the CRITICAL issues of a report are all of the wrong location of a file
OnlyWrongLocation(rep) ==
    \A c \in DOMAIN rep.critical : rep.critical[c].message = WrongLocation

\* C28: after a pass with --fix whose CRITICAL issues were all of files with
\* a date name directly under daily/, the pass run next, with or without
\* --fix, reports no file at a wrong location, returns 0 and moves no file.
C28_FixConverges ==
    (/\ vpc = "done"
     /\ pass_no = 2
     /\ first_pass.fix
     /\ OnlyWrongLocation(first_pass.report))
        => /\ \A c \in DOMAIN report.critical :
                  report.critical[c].message # WrongLocation
           /\ exit_code = 0
           /\ tree = tree0

\* the first pass has moved two files, the second is run with --fix too
C28_Witness ==
    /\ vpc = "done"
    /\ pass_no = 2
    /\ fix
    /\ first_pass.fix
    /\ OnlyWrongLocation(first_pass.report)
    /\ Len(first_pass.report.critical) = 2
    /\ first_pass.exit_code = 1
    /\ first_pass.tree0 # tree0
    /\ exit_code = 0

---------------------------------------------------------------------------
(* Claims on the metrics updater (SpecMetrics, SpecRace) *)

\* the places of the evidence counter in a goal text, and its value when
\* there is one counter
CounterPlaces(text) == {p \in DOMAIN text : text[p] = ProgressLabel}
OneCounter(text) == Cardinality(CounterPlaces(text)) = 1
Counter(text) == text[(CHOOSE p \in CounterPlaces(text) : TRUE) + 2].n

\* the number of checked evidence items of the record of a day
Evidence(day) == Len(DayRecord(day).evidence_done)

\* C12: over any sequence of calls of update_goal_metrics (each call works on
\* the file the call before left) on a goal with one counter that starts at
\* no more than 10, the counter never exceeds 10, and after a call with a
\* record of k checked evidence items it is min(10, value before + k).
C12_CounterCeiling ==
    /\ \A j \in DOMAIN calls :
           /\ calls[j].before = IF j = 1 THEN calls[j].before ELSE calls[j - 1].after
           /\ (OneCounter(calls[j].before) /\ Counter(calls[j].before) <= 10)
                  => /\ OneCounter(calls[j].after)
                     /\ Counter(calls[j].after) <= 10
                     /\ Counter(calls[j].after)
                            = IF Counter(calls[j].before) + Evidence(calls[j].day) <= 10
                              THEN Counter(calls[j].before) + Evidence(calls[j].day)
                              ELSE 10
    /\ (mpc = "calls" /\ calls # <<>>) => goal_file = calls[Len(calls)].after

\* the counter raised from 8 to the ceiling by two items, and kept there by the
\* next call
C12_Witness ==
    /\ Len(calls) = 2
    /\ OneCounter(calls[1].before)
    /\ Counter(calls[1].before) = 8
    /\ Evidence(calls[1].day) = 2
    /\ Counter(calls[1].after) = 10
    /\ Evidence(calls[2].day) > 0
    /\ Counter(calls[2].after) = 10

\* the values of the counter and of the completion percentage in a goal text
FieldValues(text) ==
    [p \in {q \in DOMAIN text : text[q] \in {ProgressLabel, CompletionLabel}}
        |-> text[p + 2].n]

\* C13: update_goal_metrics returns True exactly when the counter or the
\* completion percentage received a value different from the one it had; when
\* every field keeps its value it returns False and the file is not written.
C13_ReturnsChange ==
    \A j \in DOMAIN calls :
        /\ calls[j].updated <=> FieldValues(calls[j].after) # FieldValues(calls[j].before)
        /\ FieldValues(calls[j].after) = FieldValues(calls[j].before)
               => ~calls[j].written

\* the value after **Vypolnenie:** in a goal text with one such field
OnePercentage(text) == Cardinality({p \in DOMAIN text : text[p] = CompletionLabel}) = 1
Percentage(text) ==
    text[(CHOOSE p \in DOMAIN text : text[p] = CompletionLabel) + 2].n

\* C14: when the record has an operations_percent (0 included), the goal's
\* percentage shows exactly that value after the call; when it has none, the
\* goal shows min(100, floor(count of operations_done * 100 / 8)).
C14_PercentageOverwritten ==
    \A j \in DOMAIN calls :
        LET data == DayRecord(calls[j].day)
            count == Len(data.operations_done)
        IN OnePercentage(calls[j].before) =>
               Percentage(calls[j].after)
                   = IF data.operations_percent # NoValue
                     THEN data.operations_percent.v
                     ELSE IF (count * 100) \div 8 <= 100
                          THEN (count * 100) \div 8 ELSE 100

\* the number of change-history entries of a text that name a day
EntriesFor(text, day) ==
    Cardinality({p \in 1..(Len(text) - 1) :
        /\ text[p] = W(": [PROGRESS] Avtoobnovlenie metrik na osnove refleksii za ")
        /\ text[p + 1] = DayDate(day)})

\* the number of headers of the change history in a text
HistoryHeaders(text) ==
    Cardinality({p \in DOMAIN text : text[p] = HistoryHeader})

\* C15: two calls in a row for the same day, whose record has k > 0 checked
\* evidence items, on a goal with one counter p <= 10: both return True, the
\* counter ends at min(10, p + 2k), and the change history has two more
\* entries for that day (the goal holding the header of the history once at
\* most).
C15_NotIdempotent ==
    \A j \in 1..(Len(calls) - 1) :
        LET p == Counter(calls[j].before)
            k == Evidence(calls[j].day)
        IN (/\ calls[j + 1].day = calls[j].day
            /\ k > 0
            /\ HistoryHeaders(calls[j].before) <= 1
            /\ OneCounter(calls[j].before)
            /\ p <= 10)
               => /\ calls[j].updated /\ calls[j + 1].updated
                  /\ Counter(calls[j + 1].after)
                         = IF p + 2 * k <= 10 THEN p + 2 * k ELSE 10
                  /\ EntriesFor(calls[j + 1].after, calls[j].day)
                         = EntriesFor(calls[j].before, calls[j].day) + 2

\* a day of two items applied twice to a counter at 0
C15_Witness ==
    /\ Len(calls) = 2
    /\ calls[1].day = calls[2].day
    /\ Evidence(calls[1].day) = 2
    /\ OneCounter(calls[1].before)
    /\ Counter(calls[1].before) = 0
    /\ Counter(calls[2].after) = 4
    /\ EntriesFor(calls[2].after, calls[1].day) = 2

\* all the change-history entries of a text
Entries(text) ==
    Cardinality({p \in DOMAIN text :
        text[p] = W(": [PROGRESS] Avtoobnovlenie metrik na osnove refleksii za ")})

\* both processes are done, both had read the same text (so both read before
\* either wrote), and both had evidence to add to its one counter
BothReadFirst ==
    /\ mpc = "race"
    /\ \A p \in Procs : procs[p].pc = "done" /\ Evidence(procs[p].day) > 0
    /\ procs[1].content = procs[2].content
    /\ OneCounter(procs[1].content)
    /\ Counter(procs[1].content) <= 10

\* C16: when two processes both read the goal file before either writes it,
\* the file they leave holds the increment and the change-history entry of one
\* of them only (the last writer).
C16_LostUpdate ==
    BothReadFirst =>
        LET text == procs[1].content
        IN /\ Entries(goal_file) = Entries(text) + 1
           /\ \E w \in Procs :
                  /\ EntriesFor(goal_file, procs[w].day)
                         = EntriesFor(text, procs[w].day) + 1
                  /\ Counter(goal_file)
                         = IF Counter(text) + Evidence(procs[w].day) <= 10
                           THEN Counter(text) + Evidence(procs[w].day)
                           ELSE 10

\* two days of one and two items on a counter at 0: the file ends below 3
C16_Witness ==
    /\ BothReadFirst
    /\ Counter(procs[1].content) = 0
    /\ Evidence(procs[1].day) = 1
    /\ Evidence(procs[2].day) = 2
    /\ Counter(goal_file) < 3
    /\ EntriesFor(goal_file, procs[1].day) + EntriesFor(goal_file, procs[2].day) = 1

\* C26: a call that returns False leaves the goal file as it was, and a call
\* that returns True adds exactly one entry to the change history, naming
\* the day of the record.
C26_OneEntryOrNothing ==
    \A j \in DOMAIN calls :
        IF calls[j].updated
        THEN /\ Entries(calls[j].after) = Entries(calls[j].before) + 1
             /\ EntriesFor(calls[j].after, calls[j].day)
                    = EntriesFor(calls[j].before, calls[j].day) + 1
        ELSE calls[j].after = calls[j].before

\* C29: a call leaves the completion percentage of the goal within 0..100,
\* and a goal with no percentage above 100, for which the validator has no
\* WARNING of that kind, has none after the call.
C29_PercentageInRange ==
    \A j \in DOMAIN calls :
        /\ (OnePercentage(calls[j].before) /\ Percentage(calls[j].before) <= 100)
               => Percentage(calls[j].after) <= 100
        /\ HighPercents(calls[j].before) = <<>>
               => HighPercents(calls[j].after) = <<>>

---------------------------------------------------------------------------
(* Claims on the commands (SpecCommands) *)

\* C19: a command run for a day whose reflection file does not exist ends
\* with a non-zero exit code in its one step (nothing is tried again) and
\* leaves every goal file and the reflection file as they were.
C19_AbsentDayFails ==
    [][(cpc = "start" /\ ~reflection.exists)
          => /\ cpc' = "done"
             /\ returncode' # 0
             /\ goal_docs' = goal_docs
             /\ reflection' = reflection]_vars

---------------------------------------------------------------------------
(* Claims on the schedule commands (SpecSchedule) *)

\* the lines that lie in no block, a block being a start marker, the first
\* end marker after it and the lines between them
RECURSIVE OutsideBlocks(_, _, _)
OutsideBlocks(lines, k, inside) ==
    IF k > Len(lines) THEN <<>>
    ELSE IF inside
         THEN OutsideBlocks(lines, k + 1, lines[k] # CRON_MARKER_END)
    ELSE IF /\ lines[k] = CRON_MARKER_START
            /\ \E j \in (k + 1)..Len(lines) : lines[j] = CRON_MARKER_END
         THEN OutsideBlocks(lines, k + 1, TRUE)
    ELSE <<lines[k]>> \o OutsideBlocks(lines, k + 1, FALSE)

\* the lines of the user among them: neither blank nor a marker
UserLines(lines) ==
    LET OfUser(line) ==
            ~IsBlank(line) /\ line \notin {CRON_MARKER_START, CRON_MARKER_END}
    IN SelectSeq(OutsideBlocks(lines, 1, FALSE), OfUser)

\* the lines of a are lines of b, in the same order
RECURSIVE IsSubsequence(_, _)
IsSubsequence(a, b) ==
    IF a = <<>> THEN TRUE
    ELSE IF b = <<>> THEN FALSE
    ELSE IF Head(a) = Head(b) THEN IsSubsequence(Tail(a), Tail(b))
    ELSE IsSubsequence(a, Tail(b))

Markers(lines, marker) == Cardinality({k \in DOMAIN lines : lines[k] = marker})

\* C30: after a setup/enable or a disable the crontab holds one block at
\* most, exactly one after an install and none after a disable, and the
\* lines of the user that lay outside a block before the operation are
\* still there, in the same order.
C30_OneBlockOthersKept ==
    cron_op \in {"install", "remove"} =>
        /\ Markers(crontab, CRON_MARKER_START) = Markers(crontab, CRON_MARKER_END)
        /\ Markers(crontab, CRON_MARKER_START) = IF cron_op = "install" THEN 1 ELSE 0
        /\ IsSubsequence(UserLines(crontab0), crontab)

=============================================================================
